---- MODULE Spec2Model ----
(***************************************************************************)
(* Model of the ponder-indexer block handler (src/src/index.ts), its       *)
(* classifier and the persistence calls it makes, and of the live layer    *)
(* (src/src/websocket.ts): the event emitter, the WebSocket server with    *)
(* its subscriptions, the TPS window and the handlers that emit to it.     *)
(*                                                                         *)
(* Strings are TLA+ strings: Len, SubSeq and \o act on them as the         *)
(* JavaScript length, slice and + do.                                      *)
(***************************************************************************)
EXTENDS Integers, Sequences, FiniteSets, TLC

----------------------------------------------------------------------------
(* Bounds of the model                                                     *)

\* longest transaction list the block source returns for one block, the
\* three-transaction scenario block apart
MaxTxs == 2

\* how many times the persistence collaborator may reject an insert for a
\* reason other than a duplicate key
MaxInsertFailures == 1

\* how many times the store is dropped for a re-index from scratch
MaxReindex == 1

\* largest TPS window the environment configures
MaxWindow == 2

\* how many messages the clients send, all together
MaxMessages == 2

\* how many times the upstream driver runs the live handler
MaxLiveRuns == 1

\* how many networkStats frames the interval callback sends to one client
MaxTicks == 1

\* how many times the driver runs the live handler where the order of the
\* frames over several blocks is observed
MaxOrderedRuns == 2

\* how many networkStats frames one client is sent where consecutive frames
\* are compared
MaxStatsFrames == 2

\* how many blocks are tracked for a window of one of the WindowSizes
MaxTracked == 4

\* the window of the run that tracks blocks one second apart, five
\* transactions each, until the window is full
ScenarioWindow == 10

----------------------------------------------------------------------------
(* JavaScript string helpers                                               *)

Min(a, b) == IF a < b THEN a ELSE b

\* s.slice(0, n)
slice(s, n) == SubSeq(s, 1, Min(n, Len(s)))

\* one character of String.prototype.toLowerCase over the hex alphabet
lowerChar(c) ==
  CASE c = "A" -> "a" [] c = "B" -> "b" [] c = "C" -> "c"
    [] c = "D" -> "d" [] c = "E" -> "e" [] c = "F" -> "f"
    [] c = "X" -> "x" [] OTHER -> c

RECURSIVE toLowerCase(_)
toLowerCase(s) ==
  IF Len(s) = 0 THEN ""
  ELSE lowerChar(SubSeq(s, 1, 1)) \o toLowerCase(SubSeq(s, 2, Len(s)))

----------------------------------------------------------------------------
(* Classifier: src/src/index.ts 5-42                                       *)

Categories == {"transfer", "swap", "mint", "burn", "stake", "other"}

signatures ==
  [ s \in { "0xa9059cbb", "0x23b872dd",
            "0x7ff36ab5", "0x18cbafe5", "0x38ed1739", "0x8803dbee",
            "0x5c11d795", "0x791ac947", "0x022c0d9f",
            "0x40c10f19", "0xa0712d68", "0x4f02c420",
            "0x42966c68", "0x9dc29fac", "0xa399b6a2",
            "0xa694fc3a", "0x2e1a7d4d", "0xb6b55f25", "0xe2bbb158",
            "0x379607f5", "0x4e71d92d" } |->
      CASE s \in {"0xa9059cbb", "0x23b872dd"} -> "transfer"
        [] s \in {"0x7ff36ab5", "0x18cbafe5", "0x38ed1739", "0x8803dbee",
                  "0x5c11d795", "0x791ac947", "0x022c0d9f"} -> "swap"
        [] s \in {"0x40c10f19", "0xa0712d68", "0x4f02c420"} -> "mint"
        [] s \in {"0x42966c68", "0x9dc29fac", "0xa399b6a2"} -> "burn"
        [] OTHER -> "stake" ]

\* mutant: the lookup key is not lower-cased
classifyNoLowerCase(input) ==
  LET methodSig == slice(input, 10)
  IN  IF methodSig \in DOMAIN signatures THEN signatures[methodSig] ELSE "other"

classifyTransactionByMethodSig(input) ==
  LET methodSig == toLowerCase(slice(input, 10))
  IN  IF methodSig \in DOMAIN signatures THEN signatures[methodSig] ELSE "other"

----------------------------------------------------------------------------
(* Values of the block source                                              *)

\* JavaScript null / undefined
Null == "null"

\* v is truthy (used for `tx.to || ...`, `if (tx.to)`, `if (!tx)`)
Truthy(v) == v # Null /\ v # ""

ZeroAddress == "0x0000000000000000000000000000000000000000"

\* MON amounts are counted in units of 10^12 wei, so that 10^18 wei (one MON)
\* is 10^6 and sums of a block's amounts stay representable.
OneMon == 10^6

A == "0xaa"
B == "0xbb"
C == "0xcc"
D == "0xdd"

\* Transactions the block source can return (without their hash, which the
\* source derives from the position in the chain).
TxSet ==
  { [from |-> A, to |-> B,    value |-> OneMon, gas |-> 21000, input |-> "0x"],
    [from |-> A, to |-> C,    value |-> 0,      gas |-> 50001, input |-> "0xa9059cbb00"],
    [from |-> D, to |-> C,    value |-> 0,      gas |-> 90000, input |-> "0x7ff36ab500"],
    [from |-> D, to |-> Null, value |-> 0,      gas |-> 7,     input |-> "0x6080"],
    [from |-> D, to |-> Null, value |-> 3,      gas |-> 11,    input |-> "0x"],
    [from |-> A, to |-> A,    value |-> 5,      gas |-> 21000, input |-> "0x"],
    [from |-> D, to |-> C,    value |-> 2,      gas |-> 30000, input |-> "0x40c10f19"],
    [from |-> A, to |-> C,    value |-> 4,      gas |-> 40000, input |-> "0x42966C6800"] }

\* the transactions of the end-to-end scenario of the specification: (a) A->B 10^18 wei, no call data;
\* (b) A->C selector 0xa9059cbb, no value; (c) D->C selector 0x7ff36ab5, no value
ScenarioBody ==
  << [from |-> A, to |-> B, value |-> OneMon, gas |-> 21000, input |-> "0x"],
     [from |-> A, to |-> C, value |-> 0, gas |-> 50001, input |-> "0xa9059cbb00"],
     [from |-> D, to |-> C, value |-> 0, gas |-> 90000, input |-> "0x7ff36ab500"] >>

\* block numbers the upstream driver delivers
Blocks == {100}

\* the sequences over S of length at most n
SeqsUpTo(S, n) == UNION { [1..len -> S] : len \in 0..n }

\* the transaction lists the block source can return for a block
Bodies == SeqsUpTo(TxSet, MaxTxs) \cup { ScenarioBody }

TxHash(b, idx) == "0xh" \o ToString(b) \o "x" \o ToString(idx)

\* client.getBlock({blockNumber, includeTransactions: true}): the header and
\* the transaction objects of block b, whose bodies are `body`
Header(b) ==
  [ number |-> b, hash |-> "0xb" \o ToString(b), timestamp |-> 1000 + b,
    gasUsed |-> 12345 + b, gasLimit |-> 150000 ]

FullBlock(b, body) ==
  [ idx \in 1..Len(body) |->
      [ hash |-> TxHash(b, idx - 1), from |-> body[idx].from, to |-> body[idx].to,
        value |-> body[idx].value, gas |-> body[idx].gas, gasPrice |-> 52,
        input |-> body[idx].input, nonce |-> idx ] ]

----------------------------------------------------------------------------
(* JavaScript Map, kept in insertion order: a sequence of entries with a   *)
(* field `key`                                                             *)

MapHas(m, k) == \E n \in 1..Len(m) : m[n].key = k

MapIndex(m, k) == CHOOSE n \in 1..Len(m) : m[n].key = k

MapGet(m, k) == m[MapIndex(m, k)]

\* set an entry: an existing key keeps its position, a new key goes last
MapSet(m, e) ==
  IF MapHas(m, e.key) THEN [m EXCEPT ![MapIndex(m, e.key)] = e] ELSE Append(m, e)

\* s.split('-')
RECURSIVE split(_)
split(s) ==
  IF \A n \in 1..Len(s) : SubSeq(s, n, n) # "-" THEN << s >>
  ELSE LET n == CHOOSE m \in 1..Len(s) :
                  /\ SubSeq(s, m, m) = "-"
                  /\ \A l \in 1..(m - 1) : SubSeq(s, l, l) # "-"
       IN  << SubSeq(s, 1, n - 1) >> \o split(SubSeq(s, n + 1, Len(s)))

----------------------------------------------------------------------------
(* Per-transaction pass of the persisting block handler:                   *)
(* src/src/index.ts 106-247                                                *)

\* const input = tx.input || "0x"
InputOf(tx) == IF Truthy(tx.input) THEN tx.input ELSE "0x"

\* BigInt(tx.gas || 0), BigInt(tx.value || 0)
GasOf(tx) == tx.gas
AmountOf(tx) == tx.value

\* mutant: the value rule needs call data shorter than a full selector
ClassifyStrictlyShorter(tx) ==
  IF AmountOf(tx) > 0 /\ (InputOf(tx) = "0x" \/ Len(InputOf(tx)) < 10)
  THEN [ txType |-> "transfer",
         contractAddress |-> IF Truthy(tx.to) THEN tx.to ELSE Null ]
  ELSE [ txType |-> classifyTransactionByMethodSig(InputOf(tx)),
         contractAddress |-> tx.to ]

\* mutant: the value rule is dropped, every transaction goes to the table
ClassifyTableOnly(tx) ==
  [ txType |-> classifyTransactionByMethodSig(InputOf(tx)),
    contractAddress |-> tx.to ]

\* lines 166-177: txType and contractAddress of one transaction
Classify(tx) ==
  IF AmountOf(tx) > 0 /\ (InputOf(tx) = "0x" \/ Len(InputOf(tx)) <= 10)
  THEN [ txType |-> "transfer",
         contractAddress |-> IF Truthy(tx.to) THEN tx.to ELSE Null ]
  ELSE [ txType |-> classifyTransactionByMethodSig(InputOf(tx)),
         contractAddress |-> tx.to ]

\* mutant: a transfer is recorded for every transaction, with or without value
MonTransfersAfterAnyValue(list, b, idx, tx) ==
  Append(list,
    [ id |-> ToString(b) \o "-" \o ToString(idx),
      transactionHash |-> tx.hash,
      fromAddress |-> tx.from,
      toAddress |-> IF Truthy(tx.to) THEN tx.to ELSE ZeroAddress,
      amount |-> AmountOf(tx),
      gasUsed |-> GasOf(tx) ])

\* lines 120-129: monTransfersList.push(...)
MonTransfersAfter(list, b, idx, tx) ==
  IF AmountOf(tx) > 0
  THEN Append(list,
         [ id |-> ToString(b) \o "-" \o ToString(idx),
           transactionHash |-> tx.hash,
           fromAddress |-> tx.from,
           toAddress |-> IF Truthy(tx.to) THEN tx.to ELSE ZeroAddress,
           amount |-> AmountOf(tx),
           gasUsed |-> GasOf(tx) ])
  ELSE list

\* mutant: a wallet that already has an entry keeps it when it sends
MonSenderAfterFirstOnly(stats, tx) ==
  IF MapHas(stats, tx.from)
  THEN stats
  ELSE MapSet(stats, [ key |-> tx.from, totalSent |-> AmountOf(tx),
                       totalReceived |-> 0, transferCount |-> 1,
                       sentCount |-> 1, receivedCount |-> 0 ])

\* lines 131-145: sender side of monWalletStats
MonSenderAfter(stats, tx) ==
  IF MapHas(stats, tx.from)
  THEN LET s == MapGet(stats, tx.from)
       IN  MapSet(stats, [s EXCEPT !.totalSent = @ + AmountOf(tx),
                                   !.transferCount = @ + 1,
                                   !.sentCount = @ + 1])
  ELSE MapSet(stats, [ key |-> tx.from, totalSent |-> AmountOf(tx),
                       totalReceived |-> 0, transferCount |-> 1,
                       sentCount |-> 1, receivedCount |-> 0 ])

\* mutant: a wallet that already has an entry keeps its transferCount when it
\* receives
MonReceiverAfterCountsOnce(stats, tx) ==
  IF ~Truthy(tx.to) THEN stats
  ELSE IF MapHas(stats, tx.to)
  THEN LET r == MapGet(stats, tx.to)
       IN  MapSet(stats, [r EXCEPT !.totalReceived = @ + AmountOf(tx),
                                   !.receivedCount = @ + 1])
  ELSE MapSet(stats, [ key |-> tx.to, totalSent |-> 0,
                       totalReceived |-> AmountOf(tx), transferCount |-> 1,
                       sentCount |-> 0, receivedCount |-> 1 ])

\* lines 147-163: receiver side of monWalletStats
MonReceiverAfter(stats, tx) ==
  IF ~Truthy(tx.to) THEN stats
  ELSE IF MapHas(stats, tx.to)
  THEN LET r == MapGet(stats, tx.to)
       IN  MapSet(stats, [r EXCEPT !.totalReceived = @ + AmountOf(tx),
                                   !.transferCount = @ + 1,
                                   !.receivedCount = @ + 1])
  ELSE MapSet(stats, [ key |-> tx.to, totalSent |-> 0,
                       totalReceived |-> AmountOf(tx), transferCount |-> 1,
                       sentCount |-> 0, receivedCount |-> 1 ])

\* lines 119-164
MonWalletAfter(stats, tx) ==
  IF AmountOf(tx) > 0 THEN MonReceiverAfter(MonSenderAfter(stats, tx), tx)
  ELSE stats

\* mutant: the category of the latest transaction replaces the stored one
StatsAfterLastWins(stats, k, gasUsed, txType) ==
  IF MapHas(stats, k)
  THEN LET e == MapGet(stats, k)
       IN  MapSet(stats, [e EXCEPT !.transactionCount = @ + 1,
                                   !.gasUsed = @ + gasUsed,
                                   !.transactionType = txType])
  ELSE MapSet(stats, [ key |-> k, transactionCount |-> 1, gasUsed |-> gasUsed,
                       transactionType |-> txType ])

\* lines 181-191 and 195-205: count and gas of one key, first category kept
StatsAfter(stats, k, gasUsed, txType) ==
  IF MapHas(stats, k)
  THEN LET e == MapGet(stats, k)
       IN  MapSet(stats, [e EXCEPT !.transactionCount = @ + 1,
                                   !.gasUsed = @ + gasUsed])
  ELSE MapSet(stats, [ key |-> k, transactionCount |-> 1, gasUsed |-> gasUsed,
                       transactionType |-> txType ])

\* lines 179-191
ContractStatsAfter(stats, tx) ==
  LET c == Classify(tx)
  IN  IF Truthy(c.contractAddress)
      THEN StatsAfter(stats, c.contractAddress, GasOf(tx), c.txType)
      ELSE stats

\* mutant: only the transactions without value are tracked per wallet and
\* contract
WalletContractStatsAfterCallsOnly(stats, tx) ==
  LET c == Classify(tx)
  IN  IF Truthy(c.contractAddress) /\ AmountOf(tx) = 0
      THEN StatsAfter(stats, tx.from \o "-" \o c.contractAddress, GasOf(tx), c.txType)
      ELSE stats

\* lines 193-205: key `${walletAddress}-${contractAddress}`
WalletContractStatsAfter(stats, tx) ==
  LET c == Classify(tx)
  IN  IF Truthy(c.contractAddress)
      THEN StatsAfter(stats, tx.from \o "-" \o c.contractAddress, GasOf(tx), c.txType)
      ELSE stats

\* mutant: a transaction without receiver adds the zero address to the set
WalletGasStatsAfterTouchingZero(stats, tx) ==
  LET c == Classify(tx)
      touched == IF Truthy(c.contractAddress) THEN {c.contractAddress} ELSE {ZeroAddress}
  IN  IF MapHas(stats, tx.from)
      THEN LET e == MapGet(stats, tx.from)
           IN  MapSet(stats, [e EXCEPT !.totalGasUsed = @ + GasOf(tx),
                                       !.transactionCount = @ + 1,
                                       !.contractsInteracted = @ \cup touched])
      ELSE MapSet(stats, [ key |-> tx.from, totalGasUsed |-> GasOf(tx),
                           transactionCount |-> 1,
                           contractsInteracted |-> touched ])

\* mutant: the set of a wallet is filled by its first transaction only
WalletGasStatsAfterFirstOnly(stats, tx) ==
  LET c == Classify(tx)
      touched == IF Truthy(c.contractAddress) THEN {c.contractAddress} ELSE {}
  IN  IF MapHas(stats, tx.from)
      THEN LET e == MapGet(stats, tx.from)
           IN  MapSet(stats, [e EXCEPT !.totalGasUsed = @ + GasOf(tx),
                                       !.transactionCount = @ + 1])
      ELSE MapSet(stats, [ key |-> tx.from, totalGasUsed |-> GasOf(tx),
                           transactionCount |-> 1,
                           contractsInteracted |-> touched ])

\* mutant: a transaction without contractAddress is not counted for its wallet
WalletGasStatsAfterContractsOnly(stats, tx) ==
  LET c == Classify(tx)
  IN  IF ~Truthy(c.contractAddress) THEN stats
      ELSE IF MapHas(stats, tx.from)
      THEN LET e == MapGet(stats, tx.from)
           IN  MapSet(stats, [e EXCEPT !.totalGasUsed = @ + GasOf(tx),
                                       !.transactionCount = @ + 1,
                                       !.contractsInteracted = @ \cup {c.contractAddress}])
      ELSE MapSet(stats, [ key |-> tx.from, totalGasUsed |-> GasOf(tx),
                           transactionCount |-> 1,
                           contractsInteracted |-> {c.contractAddress} ])

\* lines 208-226
WalletGasStatsAfter(stats, tx) ==
  LET c == Classify(tx)
      touched == IF Truthy(c.contractAddress) THEN {c.contractAddress} ELSE {}
  IN  IF MapHas(stats, tx.from)
      THEN LET e == MapGet(stats, tx.from)
           IN  MapSet(stats, [e EXCEPT !.totalGasUsed = @ + GasOf(tx),
                                       !.transactionCount = @ + 1,
                                       !.contractsInteracted = @ \cup touched])
      ELSE MapSet(stats, [ key |-> tx.from, totalGasUsed |-> GasOf(tx),
                           transactionCount |-> 1,
                           contractsInteracted |-> touched ])

\* mutant: the value branch forgets txTypeCounts.transfer++
TxTypeCountsAfterTableOnly(counts, tx) ==
  IF AmountOf(tx) > 0 /\ (InputOf(tx) = "0x" \/ Len(InputOf(tx)) <= 10)
  THEN counts
  ELSE [counts EXCEPT ![Classify(tx).txType] = @ + 1]

\* mutant: the count goes to the category the table gives the call data,
\* with or without value
TxTypeCountsAfterBySignature(counts, tx) ==
  [counts EXCEPT ![classifyTransactionByMethodSig(InputOf(tx))] = @ + 1]

\* lines 168-169 and 175: txTypeCounts[txType]++
TxTypeCountsAfter(counts, tx) ==
  [counts EXCEPT ![Classify(tx).txType] = @ + 1]

\* lines 229-246: the row handed to db.insert(transactions)
TransactionRow(hdr, idx, tx) ==
  LET c == Classify(tx)
      input == InputOf(tx)
  IN  [ hash |-> tx.hash,
        blockNumber |-> hdr.number,
        blockTimestamp |-> hdr.timestamp,
        transactionIndex |-> idx,
        fromAddress |-> tx.from,
        toAddress |-> IF Truthy(tx.to) THEN tx.to ELSE ZeroAddress,
        value |-> AmountOf(tx),
        gasUsed |-> GasOf(tx),
        gasPrice |-> tx.gasPrice,
        gasLimit |-> tx.gas,
        transactionType |-> c.txType,
        methodSignature |-> slice(input, 10),
        inputData |-> IF Len(input) > 1000 THEN slice(input, 1000) \o "..." ELSE input,
        success |-> TRUE,
        nonce |-> tx.nonce,
        contractAddress |-> IF Truthy(c.contractAddress) THEN c.contractAddress
                            ELSE ZeroAddress ]

----------------------------------------------------------------------------
(* Rows written after the pass: src/src/index.ts 252-339                   *)

\* lines 253-266
BlockRow(hdr, count, counts) ==
  [ number |-> hdr.number, hash |-> hdr.hash, timestamp |-> hdr.timestamp,
    transactionCount |-> count,
    gasUsed |-> hdr.gasUsed, gasLimit |-> hdr.gasLimit,
    transferCount |-> counts.transfer, swapCount |-> counts.swap,
    mintCount |-> counts.mint, burnCount |-> counts.burn,
    stakeCount |-> counts.stake, otherCount |-> counts.other ]

\* mutant: the average is rounded up
ContractUsageRowCeil(hdr, e) ==
  [ id |-> ToString(hdr.number) \o "-" \o e.key,
    blockNumber |-> hdr.number, blockTimestamp |-> hdr.timestamp,
    contractAddress |-> e.key,
    transactionCount |-> e.transactionCount,
    gasUsed |-> e.gasUsed,
    avgGasPerTx |-> (e.gasUsed + e.transactionCount - 1) \div e.transactionCount,
    transactionType |-> e.transactionType ]

\* lines 270-279
ContractUsageRow(hdr, e) ==
  [ id |-> ToString(hdr.number) \o "-" \o e.key,
    blockNumber |-> hdr.number, blockTimestamp |-> hdr.timestamp,
    contractAddress |-> e.key,
    transactionCount |-> e.transactionCount,
    gasUsed |-> e.gasUsed,
    avgGasPerTx |-> e.gasUsed \div e.transactionCount,
    transactionType |-> e.transactionType ]

\* lines 284-295
WalletContractRow(hdr, e) ==
  LET parts == split(e.key)
      walletAddress == parts[1]
      contractAddress == parts[2]
  IN  [ id |-> ToString(hdr.number) \o "-" \o walletAddress \o "-" \o contractAddress,
        blockNumber |-> hdr.number, blockTimestamp |-> hdr.timestamp,
        walletAddress |-> walletAddress,
        contractAddress |-> contractAddress,
        transactionCount |-> e.transactionCount,
        gasUsed |-> e.gasUsed,
        avgGasPerTx |-> e.gasUsed \div e.transactionCount,
        transactionType |-> e.transactionType ]

\* lines 300-309
WalletGasRow(hdr, e) ==
  [ id |-> ToString(hdr.number) \o "-" \o e.key,
    blockNumber |-> hdr.number, blockTimestamp |-> hdr.timestamp,
    walletAddress |-> e.key,
    totalGasUsed |-> e.totalGasUsed,
    transactionCount |-> e.transactionCount,
    avgGasPerTx |-> e.totalGasUsed \div e.transactionCount,
    contractsInteracted |-> Cardinality(e.contractsInteracted) ]

\* lines 314-323
MonTransferRow(hdr, t) ==
  [ id |-> t.id,
    blockNumber |-> hdr.number, blockTimestamp |-> hdr.timestamp,
    transactionHash |-> t.transactionHash,
    fromAddress |-> t.fromAddress, toAddress |-> t.toAddress,
    amount |-> t.amount, gasUsed |-> t.gasUsed ]

\* lines 328-338
MonWalletRow(hdr, e) ==
  [ id |-> ToString(hdr.number) \o "-" \o e.key,
    blockNumber |-> hdr.number, blockTimestamp |-> hdr.timestamp,
    walletAddress |-> e.key,
    totalSent |-> e.totalSent, totalReceived |-> e.totalReceived,
    transferCount |-> e.transferCount,
    sentCount |-> e.sentCount, receivedCount |-> e.receivedCount ]

----------------------------------------------------------------------------
(* The store behind db.insert: one table per onchainTable of               *)
(* src/ponder.schema.ts, rows kept in insertion order                      *)

Tables == { "transactions", "blocks", "contractUsage", "walletContractInteractions",
            "walletGasUsage", "monTransfers", "monWalletActivity" }

EmptyStore == [ t \in Tables |-> <<>> ]

\* the primaryKey() column of each table
PrimaryKey(table, row) ==
  CASE table = "transactions" -> row.hash
    [] table = "blocks" -> row.number
    [] OTHER -> row.id

HasKey(st, table, key) ==
  \E n \in 1..Len(st[table]) : PrimaryKey(table, st[table][n]) = key

\* the block a stored row belongs to
BlockOf(table, row) == IF table = "blocks" THEN row.number ELSE row.blockNumber

RowsOfBlock(st, b) ==
  [ t \in Tables |-> SelectSeq(st[t], LAMBDA r : BlockOf(t, r) = b) ]

----------------------------------------------------------------------------
(* Values of the live layer: src/src/websocket.ts                          *)

\* websocket.ts 46-54
EventTypes ==
  { "block", "transaction", "monTransfer", "monWalletActivity", "contractUsage",
    "walletContractInteraction", "walletGasUsage", "networkStats" }

\* the WebSocket objects the server ever hands to its 'connection' callback
Sockets == << "ws1", "ws2" >>

Clients == { Sockets[n] : n \in 1..Len(Sockets) }

\* the callback websocket.ts 262-288 registers for seven event types
Broadcaster == "broadcastEvent"

\* a callback another module registers through the exported eventEmitter
Probes == { "probe" }

\* websocket.ts:5, the window when the environment does not set one
DefaultWindow == 100

\* JavaScript values by kind and decimal text, as JSON.stringify tells them apart
BigIntV(n) == [ t |-> "bigint", v |-> ToString(n) ]

Num(n) == [ t |-> "number", v |-> ToString(n) ]

Str(x) == [ t |-> "string", v |-> x ]

Bool(x) == [ t |-> "boolean", v |-> IF x THEN "true" ELSE "false" ]

\* websocket.ts 177-181: the frame is the JSON text of the event, in which a
\* bigint is its decimal string and every other value is itself.  The
\* emission timestamp (Date.now()) is not part of the modelled event.
serializeWithBigInt(event) ==
  [ type |-> event.type,
    data |-> [ f \in DOMAIN event.data |->
                 IF event.data[f].t = "bigint" THEN Str(event.data[f].v)
                 ELSE event.data[f] ] ]

----------------------------------------------------------------------------
(* Events of the live handler: src/src/index.ts 569-771                    *)

OrZero(v) == IF Truthy(v) THEN v ELSE ZeroAddress

\* lines 592-609: emitted before the pass, with the counters still at zero
BlockEvent(hdr, count) ==
  [ type |-> "block",
    data |-> [ number |-> BigIntV(hdr.number), hash |-> Str(hdr.hash),
               timestamp |-> BigIntV(hdr.timestamp),
               transactionCount |-> Num(count),
               gasUsed |-> BigIntV(hdr.gasUsed), gasLimit |-> BigIntV(hdr.gasLimit),
               transferCount |-> Num(0), swapCount |-> Num(0), mintCount |-> Num(0),
               burnCount |-> Num(0), stakeCount |-> Num(0), otherCount |-> Num(0) ] ]

\* lines 637-656
TransactionEvent(hdr, idx, tx) ==
  [ type |-> "transaction",
    data |-> [ hash |-> Str(tx.hash),
               blockNumber |-> Num(hdr.number),
               blockTimestamp |-> Num(hdr.timestamp),
               transactionIndex |-> Num(idx),
               fromAddress |-> Str(tx.from),
               toAddress |-> Str(OrZero(tx.to)),
               value |-> Str(ToString(tx.value)),
               gasUsed |-> Str(ToString(tx.gas)),
               gasPrice |-> Str(ToString(tx.gasPrice)),
               transactionType |-> Str(Classify(tx).txType),
               methodSignature |-> Str(slice(InputOf(tx), 10)),
               success |-> Bool(TRUE),
               contractAddress |-> Str(OrZero(Classify(tx).contractAddress)) ] ]

\* lines 659-671
MonTransferEvent(hdr, idx, tx) ==
  [ type |-> "monTransfer",
    data |-> [ id |-> Str(ToString(hdr.number) \o "-" \o ToString(idx)),
               transactionHash |-> Str(tx.hash),
               fromAddress |-> Str(tx.from),
               toAddress |-> Str(OrZero(tx.to)),
               amount |-> BigIntV(AmountOf(tx)),
               gasUsed |-> BigIntV(GasOf(tx)) ] ]

\* lines 674-688 (the sender) and 690-706 (the receiver)
MonWalletActivityEvent(hdr, wallet, sentAmount, receivedAmount) ==
  [ type |-> "monWalletActivity",
    data |-> [ id |-> Str(ToString(hdr.number) \o "-" \o wallet),
               blockNumber |-> BigIntV(hdr.number),
               blockTimestamp |-> BigIntV(hdr.timestamp),
               walletAddress |-> Str(wallet),
               totalSent |-> BigIntV(sentAmount),
               totalReceived |-> BigIntV(receivedAmount),
               transferCount |-> Num(1),
               sentCount |-> Num(IF sentAmount > 0 THEN 1 ELSE 0),
               receivedCount |-> Num(IF sentAmount > 0 THEN 0 ELSE 1) ] ]

\* lines 711-724
ContractUsageEvent(hdr, tx) ==
  [ type |-> "contractUsage",
    data |-> [ id |-> Str(ToString(hdr.number) \o "-" \o Classify(tx).contractAddress),
               blockNumber |-> BigIntV(hdr.number),
               blockTimestamp |-> BigIntV(hdr.timestamp),
               contractAddress |-> Str(Classify(tx).contractAddress),
               transactionCount |-> Num(1),
               gasUsed |-> BigIntV(GasOf(tx)),
               avgGasPerTx |-> BigIntV(GasOf(tx)),
               transactionType |-> Str(Classify(tx).txType) ] ]

\* lines 727-741
WalletContractInteractionEvent(hdr, tx) ==
  [ type |-> "walletContractInteraction",
    data |-> [ id |-> Str(ToString(hdr.number) \o "-" \o tx.from \o "-"
                          \o Classify(tx).contractAddress),
               blockNumber |-> BigIntV(hdr.number),
               blockTimestamp |-> BigIntV(hdr.timestamp),
               walletAddress |-> Str(tx.from),
               contractAddress |-> Str(Classify(tx).contractAddress),
               transactionCount |-> Num(1),
               gasUsed |-> BigIntV(GasOf(tx)),
               avgGasPerTx |-> BigIntV(GasOf(tx)),
               transactionType |-> Str(Classify(tx).txType) ] ]

\* lines 745-758
WalletGasUsageEvent(hdr, tx) ==
  [ type |-> "walletGasUsage",
    data |-> [ id |-> Str(ToString(hdr.number) \o "-" \o tx.from),
               blockNumber |-> BigIntV(hdr.number),
               blockTimestamp |-> BigIntV(hdr.timestamp),
               walletAddress |-> Str(tx.from),
               totalGasUsed |-> BigIntV(GasOf(tx)),
               transactionCount |-> Num(1),
               avgGasPerTx |-> BigIntV(GasOf(tx)),
               contractsInteracted |-> Num(IF Truthy(Classify(tx).contractAddress) THEN 1 ELSE 0) ] ]

\* lines 611-759: the events of one iteration of the transaction loop, in the
\* order of their emit calls
TxEvents(hdr, idx, tx) ==
  << TransactionEvent(hdr, idx, tx) >>
  \o (IF AmountOf(tx) > 0
      THEN << MonTransferEvent(hdr, idx, tx),
              MonWalletActivityEvent(hdr, tx.from, AmountOf(tx), 0) >>
           \o (IF Truthy(tx.to)
               THEN << MonWalletActivityEvent(hdr, tx.to, 0, AmountOf(tx)) >>
               ELSE <<>>)
      ELSE <<>>)
  \o (IF Truthy(Classify(tx).contractAddress)
      THEN << ContractUsageEvent(hdr, tx), WalletContractInteractionEvent(hdr, tx) >>
      ELSE <<>>)
  \o << WalletGasUsageEvent(hdr, tx) >>

RECURSIVE TxEventsFrom(_, _, _)
TxEventsFrom(hdr, txs, n) ==
  IF n > Len(txs) THEN <<>>
  ELSE TxEvents(hdr, n - 1, txs[n]) \o TxEventsFrom(hdr, txs, n + 1)

\* lines 579-759: every emit call of one run, in order
LiveEvents(hdr, txs) ==
  << BlockEvent(hdr, Len(txs)) >> \o TxEventsFrom(hdr, txs, 1)

----------------------------------------------------------------------------
(* Events of the live handler that feeds the TPS window:                   *)
(* src/unnamed/part_001 45-226                                             *)

OrEmpty(v) == IF Truthy(v) THEN v ELSE ""

\* part_001 70-81
TrackedBlockEvent(hdr, count) ==
  [ type |-> "block",
    data |-> [ number |-> BigIntV(hdr.number), hash |-> Str(hdr.hash),
               timestamp |-> BigIntV(hdr.timestamp),
               transactionCount |-> Num(count),
               gasUsed |-> BigIntV(hdr.gasUsed), gasLimit |-> BigIntV(hdr.gasLimit) ] ]

\* part_001 110-127
TrackedTransactionEvent(hdr, tx) ==
  [ type |-> "transaction",
    data |-> [ hash |-> Str(tx.hash),
               blockNumber |-> BigIntV(hdr.number),
               blockTimestamp |-> BigIntV(hdr.timestamp),
               fromAddress |-> Str(tx.from),
               toAddress |-> Str(OrEmpty(tx.to)),
               value |-> BigIntV(tx.value),
               gasUsed |-> BigIntV(tx.gas),
               gasPrice |-> BigIntV(tx.gasPrice),
               transactionType |-> Str(Classify(tx).txType),
               methodSignature |-> Str(slice(tx.input, 10)),
               success |-> Bool(TRUE),
               contractAddress |-> Str(OrEmpty(tx.to)) ] ]

\* part_001 131-141
TrackedMonTransferEvent(tx) ==
  [ type |-> "monTransfer",
    data |-> [ transactionHash |-> Str(tx.hash),
               fromAddress |-> Str(tx.from),
               toAddress |-> Str(OrEmpty(tx.to)),
               amount |-> BigIntV(tx.value),
               gasUsed |-> BigIntV(tx.gas) ] ]

\* part_001 144-155 (the sender) and 158-169 (the receiver)
TrackedMonWalletActivityEvent(wallet, sentAmount, receivedAmount) ==
  [ type |-> "monWalletActivity",
    data |-> [ walletAddress |-> Str(wallet),
               totalSent |-> BigIntV(sentAmount),
               totalReceived |-> BigIntV(receivedAmount),
               transferCount |-> Num(1),
               sentCount |-> Num(IF sentAmount > 0 THEN 1 ELSE 0),
               receivedCount |-> Num(IF sentAmount > 0 THEN 0 ELSE 1) ] ]

\* part_001 175-185
TrackedContractUsageEvent(tx) ==
  [ type |-> "contractUsage",
    data |-> [ contractAddress |-> Str(OrEmpty(tx.to)),
               transactionCount |-> Num(1),
               gasUsed |-> BigIntV(tx.gas),
               avgGasPerTx |-> BigIntV(tx.gas),
               transactionType |-> Str(Classify(tx).txType) ] ]

\* part_001 188-199
TrackedWalletContractInteractionEvent(tx) ==
  [ type |-> "walletContractInteraction",
    data |-> [ walletAddress |-> Str(tx.from),
               contractAddress |-> Str(OrEmpty(tx.to)),
               transactionCount |-> Num(1),
               gasUsed |-> BigIntV(tx.gas),
               avgGasPerTx |-> BigIntV(tx.gas),
               transactionType |-> Str(Classify(tx).txType) ] ]

\* part_001 203-213
TrackedWalletGasUsageEvent(tx) ==
  [ type |-> "walletGasUsage",
    data |-> [ walletAddress |-> Str(tx.from),
               totalGasUsed |-> BigIntV(tx.gas),
               transactionCount |-> Num(1),
               avgGasPerTx |-> BigIntV(tx.gas),
               contractsInteracted |-> Num(1) ] ]

\* part_001 84-214: the events of one iteration of the transaction loop
TrackedTxEvents(hdr, tx) ==
  << TrackedTransactionEvent(hdr, tx) >>
  \o (IF AmountOf(tx) > 0
      THEN << TrackedMonTransferEvent(tx),
              TrackedMonWalletActivityEvent(tx.from, tx.value, 0) >>
           \o (IF Truthy(tx.to)
               THEN << TrackedMonWalletActivityEvent(tx.to, 0, tx.value) >>
               ELSE <<>>)
      ELSE <<>>)
  \o (IF Truthy(Classify(tx).contractAddress)
      THEN << TrackedContractUsageEvent(tx), TrackedWalletContractInteractionEvent(tx) >>
      ELSE <<>>)
  \o << TrackedWalletGasUsageEvent(tx) >>

RECURSIVE TrackedTxEventsFrom(_, _, _)
TrackedTxEventsFrom(hdr, txs, n) ==
  IF n > Len(txs) THEN <<>>
  ELSE TrackedTxEvents(hdr, txs[n]) \o TrackedTxEventsFrom(hdr, txs, n + 1)

\* part_001 70-214: every emit call of one run, in order
TrackedEvents(hdr, txs) ==
  << TrackedBlockEvent(hdr, Len(txs)) >> \o TrackedTxEventsFrom(hdr, txs, 1)

----------------------------------------------------------------------------
(* State                                                                   *)

VARIABLES
  pc,                   \* where the handler is: "idle", the table of the pending
                        \* insert, or "done" (all inserts made, not yet returned)
  error,                \* how the last run ended: "none", "source", "duplicate", "rejected"
  block,                \* event.block of the run
  txList,               \* fullBlock.transactions || []
  transactionCount,     \* fullBlock.transactions?.length || 0
  i,                    \* index of the transaction loop
  k,                    \* index of the current for...of loop after the pass
  contractStats,
  walletContractStats,
  walletGasStats,
  monTransfersList,
  monWalletStats,
  txTypeCounts,
  store,                \* the rows the persistence collaborator holds
  chain,                \* per block number << the transactions the source returns >>, <<>> until asked
  insertFailures,       \* inserts rejected so far for another reason than a duplicate key
  reindexes,            \* number of times the store was dropped
  completed,            \* blocks whose handler run returned since the store was last empty
  firstOutput,          \* per block << its stored rows when a run of it first returned >>, <<>> before
  arg,                  \* classifier under test: the transaction
  res,                  \* classifier under test: << the results >>, <<>> until applied
  TPS_WINDOW_BLOCKS,    \* websocket.ts:5, read from the environment at module load
  recentBlocks,         \* websocket.ts:14, the TPS window
  tracked,              \* every entry updateBlockTracking was called with, in call order
  tps,                  \* calculateTPS under test: << the result >>, <<>> until applied
  readyState,           \* per socket: "NONE" before its connection, then "OPEN", then "CLOSED"
  wssClients,           \* wss.clients, in insertion order
  clientSubscriptions,  \* websocket.ts:187, per socket << its Set >>, <<>> when the Map has no entry
  sent,                 \* per socket the frames handed to its send, in order
  received,             \* per socket the messages its 'message' callback was run with
  listeners,            \* MonadEventEmitter.listeners: per event type the callbacks, in insertion order
  busLog,               \* per listener other than the broadcaster, the events it was called with
  emitted,              \* the events emit was called with, in call order
  liveChain,            \* the transaction lists the source returned for the blocks delivered so far
  delivered,            \* number of blocks whose live handler has returned
  handlerFeedsWindow    \* which live handler is deployed: TRUE the one of part_001,
                        \* which calls updateBlockTracking, FALSE the one of index.ts 569-771

locals == << block, txList, transactionCount, i, k, contractStats, walletContractStats,
             walletGasStats, monTransfersList, monWalletStats, txTypeCounts >>

env == << store, chain, insertFailures, reindexes, completed, firstOutput >>

cls == << arg, res >>

window == << TPS_WINDOW_BLOCKS, recentBlocks, tracked, tps >>

sockets == << readyState, wssClients, clientSubscriptions, sent, received >>

bus == << listeners, busLog, emitted >>

live == << window, sockets, bus, liveChain, delivered, handlerFeedsWindow >>

vars == << pc, error, locals, env, cls, live >>

\* the live layer right after websocket.ts was loaded: websocket.ts 14, 174,
\* 184-187 and the registrations of 262-288
LiveStart ==
  /\ recentBlocks = <<>>
  /\ tracked = <<>>
  /\ tps = <<>>
  /\ readyState = [ c \in Clients |-> "NONE" ]
  /\ wssClients = <<>>
  /\ clientSubscriptions = [ c \in Clients |-> <<>> ]
  /\ sent = [ c \in Clients |-> <<>> ]
  /\ received = [ c \in Clients |-> <<>> ]
  /\ listeners = [ t \in EventTypes |->
                     IF t = "networkStats" THEN <<>> ELSE << Broadcaster >> ]
  /\ busLog = [ l \in Probes |-> <<>> ]
  /\ emitted = <<>>
  /\ liveChain = <<>>
  /\ delivered = 0

\* mutant: the counter of 'other' starts at one
ZeroCountsButOther == [ c \in Categories |-> IF c = "other" THEN 1 ELSE 0 ]

ZeroCounts == [ c \in Categories |-> 0 ]

NoArg == [ from |-> A, to |-> Null, value |-> 0, input |-> "0x" ]

Init ==
  /\ pc = "idle"
  /\ error = "none"
  /\ block = Header(0)
  /\ txList = <<>>
  /\ transactionCount = 0
  /\ i = 0
  /\ k = 0
  /\ contractStats = <<>>
  /\ walletContractStats = <<>>
  /\ walletGasStats = <<>>
  /\ monTransfersList = <<>>
  /\ monWalletStats = <<>>
  /\ txTypeCounts = ZeroCounts
  /\ store = EmptyStore
  /\ chain = [ b \in Blocks |-> <<>> ]
  /\ insertFailures = 0
  /\ reindexes = 0
  /\ completed = {}
  /\ firstOutput = [ b \in Blocks |-> <<>> ]
  /\ arg = NoArg
  /\ res = <<>>
  /\ TPS_WINDOW_BLOCKS = DefaultWindow
  /\ handlerFeedsWindow = FALSE
  /\ LiveStart

----------------------------------------------------------------------------
(* The persisting block handler: src/src/index.ts 44-362                   *)

\* the for...of loops after the pass, in source order, and what each iterates
Phases == << "contractUsage", "walletContractInteractions", "walletGasUsage",
             "monTransfers", "monWalletActivity" >>

PhaseItems(table) ==
  CASE table = "contractUsage" -> contractStats
    [] table = "walletContractInteractions" -> walletContractStats
    [] table = "walletGasUsage" -> walletGasStats
    [] table = "monTransfers" -> monTransfersList
    [] table = "monWalletActivity" -> monWalletStats

PhaseRow(table, e) ==
  CASE table = "contractUsage" -> ContractUsageRow(block, e)
    [] table = "walletContractInteractions" -> WalletContractRow(block, e)
    [] table = "walletGasUsage" -> WalletGasRow(block, e)
    [] table = "monTransfers" -> MonTransferRow(block, e)
    [] table = "monWalletActivity" -> MonWalletRow(block, e)

\* the first loop from position n of Phases on that has something to insert
RECURSIVE PhaseFrom(_)
PhaseFrom(n) ==
  IF n > Len(Phases) THEN "done"
  ELSE IF Len(PhaseItems(Phases[n])) > 0 THEN Phases[n]
  ELSE PhaseFrom(n + 1)

PhaseIndex(table) == CHOOSE n \in 1..Len(Phases) : Phases[n] = table

\* the row of the insert the handler is waiting on
PendingRow ==
  CASE pc = "transactions" -> TransactionRow(block, i, txList[i + 1])
    [] pc = "blocks" -> BlockRow(block, transactionCount, txTypeCounts)
    [] OTHER -> PhaseRow(pc, PhaseItems(pc)[k + 1])

\* lines 111-226 for txList[i]: every accumulator takes the transaction in
Accumulate ==
  LET tx == txList[i + 1]
  IN  /\ monTransfersList' = MonTransfersAfter(monTransfersList, block.number, i, tx)
      /\ monWalletStats' = MonWalletAfter(monWalletStats, tx)
      /\ txTypeCounts' = TxTypeCountsAfter(txTypeCounts, tx)
      /\ contractStats' = ContractStatsAfter(contractStats, tx)
      /\ walletContractStats' = WalletContractStatsAfter(walletContractStats, tx)
      /\ walletGasStats' = WalletGasStatsAfter(walletGasStats, tx)

\* mutant: the accumulators are module-level and survive from run to run
GetBlockKeepsAccumulators(b) ==
  /\ pc = "idle"
  /\ \E body \in (IF chain[b] = <<>> THEN Bodies ELSE { chain[b][1] }) :
       /\ chain' = [chain EXCEPT ![b] = << body >>]
       /\ txList' = FullBlock(b, body)
       /\ transactionCount' = Len(body)
       /\ pc' = IF Len(body) > 0 THEN "transactions" ELSE "blocks"
  /\ block' = Header(b)
  /\ error' = "none"
  /\ i' = 0
  /\ k' = 0
  /\ UNCHANGED << contractStats, walletContractStats, walletGasStats,
                  monTransfersList, monWalletStats, txTypeCounts >>
  /\ UNCHANGED << store, insertFailures, reindexes, completed, firstOutput, cls, live >>

\* lines 44-106: the driver delivers block b, the source returns it with its
\* transactions and the handler starts from empty accumulators
GetBlock(b) ==
  /\ pc = "idle"
  /\ \E body \in (IF chain[b] = <<>> THEN Bodies ELSE { chain[b][1] }) :
       /\ chain' = [chain EXCEPT ![b] = << body >>]
       /\ txList' = FullBlock(b, body)
       /\ transactionCount' = Len(body)
       /\ pc' = IF Len(body) > 0 THEN "transactions" ELSE "blocks"
  /\ block' = Header(b)
  /\ error' = "none"
  /\ i' = 0
  /\ k' = 0
  /\ contractStats' = <<>>
  /\ walletContractStats' = <<>>
  /\ walletGasStats' = <<>>
  /\ monTransfersList' = <<>>
  /\ monWalletStats' = <<>>
  /\ txTypeCounts' = ZeroCounts
  /\ UNCHANGED << store, insertFailures, reindexes, completed, firstOutput, cls, live >>

\* mutant: the handler writes the block's row from the event before it asks
\* the source for the transactions
GetBlockFailsAfterBlockRow(b) ==
  /\ pc = "idle"
  /\ error' = "source"
  /\ store' = IF HasKey(store, "blocks", b) THEN store
              ELSE [store EXCEPT !["blocks"] = Append(@, BlockRow(Header(b), 0, ZeroCounts))]
  /\ UNCHANGED << pc, locals, chain, insertFailures, reindexes, completed,
                  firstOutput, cls, live >>

\* lines 44-52: the driver delivers block b and the awaited client.getBlock
\* rejects; nothing of the handler runs after the await and the handler
\* rejects with the source's error (its locals are gone with the run)
GetBlockFails(b) ==
  /\ pc = "idle"
  /\ error' = "source"
  /\ UNCHANGED << pc, locals, env, cls, live >>

\* db.insert(table).values(row) resolves: the row is stored
Stored(table, row) ==
  /\ ~HasKey(store, table, PrimaryKey(table, row))
  /\ store' = [store EXCEPT ![table] = Append(@, row)]

\* lines 107-247: one iteration of the transaction loop, its insert resolving.
\* The source returns a transaction object at every index, so the guard
\* `if (!tx) continue` of line 109 never skips one.
InsertTransaction ==
  /\ pc = "transactions"
  /\ Stored("transactions", PendingRow)
  /\ Accumulate
  /\ i' = i + 1
  /\ pc' = IF i + 1 < Len(txList) THEN "transactions" ELSE "blocks"
  /\ UNCHANGED << error, block, txList, transactionCount, k >>
  /\ UNCHANGED << chain, insertFailures, reindexes, completed, firstOutput, cls, live >>

\* lines 253-266
InsertBlock ==
  /\ pc = "blocks"
  /\ Stored("blocks", PendingRow)
  /\ pc' = PhaseFrom(1)
  /\ k' = 0
  /\ UNCHANGED << error, block, txList, transactionCount, i, contractStats,
                  walletContractStats, walletGasStats, monTransfersList,
                  monWalletStats, txTypeCounts >>
  /\ UNCHANGED << chain, insertFailures, reindexes, completed, firstOutput, cls, live >>

\* one iteration of a for...of loop of lines 268-339
InsertPhase(table) ==
  /\ pc = table
  /\ Stored(table, PendingRow)
  /\ IF k + 1 < Len(PhaseItems(table))
     THEN pc' = pc /\ k' = k + 1
     ELSE pc' = PhaseFrom(PhaseIndex(table) + 1) /\ k' = 0
  /\ UNCHANGED << error, block, txList, transactionCount, i, contractStats,
                  walletContractStats, walletGasStats, monTransfersList,
                  monWalletStats, txTypeCounts >>
  /\ UNCHANGED << chain, insertFailures, reindexes, completed, firstOutput, cls, live >>

InsertContractUsage == InsertPhase("contractUsage")

InsertWalletContract == InsertPhase("walletContractInteractions")

InsertWalletGas == InsertPhase("walletGasUsage")

InsertMonTransfer == InsertPhase("monTransfers")

InsertMonWalletActivity == InsertPhase("monWalletActivity")

\* the awaited insert rejects and the handler, which has no try/catch, rejects
\* with it; the rows stored so far stay
Throw(why) ==
  /\ pc' = "idle"
  /\ error' = why
  /\ IF pc = "transactions"
     THEN Accumulate
     ELSE UNCHANGED << contractStats, walletContractStats, walletGasStats,
                       monTransfersList, monWalletStats, txTypeCounts >>
  /\ UNCHANGED << block, txList, transactionCount, i, k >>
  /\ UNCHANGED << store, chain, reindexes, completed, firstOutput, cls, live >>

\* the table already holds a row with the primary key of the pending row
InsertDuplicate ==
  /\ pc \in Tables
  /\ HasKey(store, pc, PrimaryKey(pc, PendingRow))
  /\ Throw("duplicate")
  /\ UNCHANGED insertFailures

\* mutant: a rejected insert of a transaction is caught inside the loop, which
\* goes on with the next transaction
InsertRejectedSkipped ==
  /\ pc \in Tables
  /\ ~HasKey(store, pc, PrimaryKey(pc, PendingRow))
  /\ insertFailures < MaxInsertFailures
  /\ insertFailures' = insertFailures + 1
  /\ IF pc = "transactions"
     THEN /\ Accumulate
          /\ i' = i + 1
          /\ pc' = IF i + 1 < Len(txList) THEN "transactions" ELSE "blocks"
          /\ UNCHANGED << error, block, txList, transactionCount, k >>
          /\ UNCHANGED << store, chain, reindexes, completed, firstOutput, cls, live >>
     ELSE Throw("rejected")

\* the persistence collaborator fails the insert for another reason
InsertRejected ==
  /\ pc \in Tables
  /\ ~HasKey(store, pc, PrimaryKey(pc, PendingRow))
  /\ insertFailures < MaxInsertFailures
  /\ insertFailures' = insertFailures + 1
  /\ Throw("rejected")

\* lines 341-362: logging, then the handler returns
Return ==
  /\ pc = "done"
  /\ pc' = "idle"
  /\ completed' = completed \cup {block.number}
  /\ firstOutput' = IF firstOutput[block.number] = <<>>
                    THEN [firstOutput EXCEPT ![block.number] = << RowsOfBlock(store, block.number) >>]
                    ELSE firstOutput
  /\ UNCHANGED << error, locals, store, chain, insertFailures, reindexes, cls, live >>

\* the indexer is restarted for a re-index from scratch: the tables are dropped
Reindex ==
  /\ pc = "idle"
  /\ store # EmptyStore
  /\ reindexes < MaxReindex
  /\ reindexes' = reindexes + 1
  /\ store' = EmptyStore
  /\ completed' = {}
  /\ UNCHANGED << pc, error, locals, chain, insertFailures, firstOutput, cls, live >>

Next ==
  \/ \E b \in Blocks : GetBlock(b)
  \/ \E b \in Blocks : GetBlockFails(b)
  \/ InsertTransaction
  \/ InsertBlock
  \/ InsertContractUsage
  \/ InsertWalletContract
  \/ InsertWalletGas
  \/ InsertMonTransfer
  \/ InsertMonWalletActivity
  \/ InsertDuplicate
  \/ InsertRejected
  \/ Return
  \/ Reindex

Spec == Init /\ [][Next]_vars

----------------------------------------------------------------------------
(* The classifier on its own: the classification of one transaction drawn  *)
(* from a wider set of call data than the blocks above carry               *)

\* call data the source can return: the byte-aligned prefixes of these
CallDataBases ==
  { "0xa9059cbb0001", "0xA9059CBB0001", "0xa9059Cbb0001", "0x23b872dd0001",
    "0x7ff36ab50001", "0x40c10f190001", "0x40C10F190001", "0x42966c680001",
    "0xa694fc3a0001", "0x4e71d92d0001", "0xdeadbeef0001", "0xa9059cbc0001",
    "0x60806040" }

CallData ==
  UNION { { SubSeq(s, 1, n) : n \in { m \in 2..Len(s) : m % 2 = 0 } } : s \in CallDataBases }

ClassifyArgs ==
  { [ from |-> A, to |-> t, value |-> v, input |-> d ] :
      t \in {C, Null}, v \in {0, 1, OneMon}, d \in CallData }

InitClassify ==
  /\ pc = "idle"
  /\ error = "none"
  /\ block = Header(0)
  /\ txList = <<>>
  /\ transactionCount = 0
  /\ i = 0
  /\ k = 0
  /\ contractStats = <<>>
  /\ walletContractStats = <<>>
  /\ walletGasStats = <<>>
  /\ monTransfersList = <<>>
  /\ monWalletStats = <<>>
  /\ txTypeCounts = ZeroCounts
  /\ store = EmptyStore
  /\ chain = [ b \in Blocks |-> <<>> ]
  /\ insertFailures = 0
  /\ reindexes = 0
  /\ completed = {}
  /\ firstOutput = [ b \in Blocks |-> <<>> ]
  /\ arg \in ClassifyArgs
  /\ res = <<>>
  /\ TPS_WINDOW_BLOCKS = DefaultWindow
  /\ handlerFeedsWindow = FALSE
  /\ LiveStart

\* lines 111-114 and 166-177 applied to the transaction
ApplyClassify ==
  /\ res = <<>>
  /\ res' = << [ bySig |-> classifyTransactionByMethodSig(InputOf(arg)),
                 txType |-> Classify(arg).txType,
                 contractAddress |-> Classify(arg).contractAddress ] >>
  /\ UNCHANGED << pc, error, locals, env, arg, live >>

NextClassify == ApplyClassify

SpecClassify == InitClassify /\ [][NextClassify]_vars

----------------------------------------------------------------------------
(* The TPS window: src/src/websocket.ts 5-43                               *)

RECURSIVE EvictFront(_)
\* lines 40-42: while (recentBlocks.length > TPS_WINDOW_BLOCKS) recentBlocks.shift()
EvictFront(w) == IF Len(w) > TPS_WINDOW_BLOCKS THEN EvictFront(Tail(w)) ELSE w

RECURSIVE EvictBack(_)
EvictBack(w) ==
  IF Len(w) > TPS_WINDOW_BLOCKS THEN EvictBack(SubSeq(w, 1, Len(w) - 1)) ELSE w

BlockInfo(blockNumber, timestamp, count) ==
  [ number |-> blockNumber, timestamp |-> timestamp, transactionCount |-> count ]

\* mutant: the window is trimmed with pop(), dropping the newest entries
updateBlockTrackingPop(blockNumber, timestamp, count) ==
  EvictBack(Append(recentBlocks, BlockInfo(blockNumber, timestamp, count)))

\* lines 36-43: recentBlocks after the call
updateBlockTracking(blockNumber, timestamp, count) ==
  EvictFront(Append(recentBlocks, BlockInfo(blockNumber, timestamp, count)))

RECURSIVE GCD(_, _)
GCD(a, b) == IF b = 0 THEN a ELSE GCD(b, a % b)

Abs(a) == IF a < 0 THEN 0 - a ELSE a

\* the JavaScript number a / b for b # 0, kept exact: the fraction in lowest
\* terms with a positive denominator
Quotient(a, b) ==
  LET g == GCD(Abs(a), Abs(b))
      sign == IF b < 0 THEN 0 - 1 ELSE 1
  IN  [ num |-> sign * (a \div g), den |-> Abs(b) \div g ]

Zero == [ num |-> 0, den |-> 1 ]

RECURSIVE TotalTransactions(_)
\* line 29: recentBlocks.reduce((sum, block) => sum + block.transactionCount, 0)
TotalTransactions(w) ==
  IF Len(w) = 0 THEN 0 ELSE Head(w).transactionCount + TotalTransactions(Tail(w))

\* mutant: the transactions of the oldest block are not counted
calculateTPSAfterOldest ==
  IF Len(recentBlocks) < 2 THEN Zero
  ELSE LET oldestBlock == recentBlocks[1]
           newestBlock == recentBlocks[Len(recentBlocks)]
           timeSpan == newestBlock.timestamp - oldestBlock.timestamp
       IN  IF timeSpan = 0 THEN Zero
           ELSE Quotient(TotalTransactions(Tail(recentBlocks)), timeSpan)

\* mutant: the time span is taken from the newest block back to the oldest
calculateTPSBackwards ==
  IF Len(recentBlocks) < 2 THEN Zero
  ELSE LET oldestBlock == recentBlocks[1]
           newestBlock == recentBlocks[Len(recentBlocks)]
           timeSpan == oldestBlock.timestamp - newestBlock.timestamp
       IN  IF timeSpan = 0 THEN Zero
           ELSE Quotient(TotalTransactions(recentBlocks), timeSpan)

\* lines 17-33
calculateTPS ==
  IF Len(recentBlocks) < 2 THEN Zero
  ELSE LET oldestBlock == recentBlocks[1]
           newestBlock == recentBlocks[Len(recentBlocks)]
           timeSpan == newestBlock.timestamp - oldestBlock.timestamp
       IN  IF timeSpan = 0 THEN Zero
           ELSE Quotient(TotalTransactions(recentBlocks), timeSpan)

\* a JavaScript number that need not be an integer, as a JSON value
NumQ(q) ==
  [ t |-> "number",
    v |-> IF q.den = 1 THEN ToString(q.num)
          ELSE ToString(q.num) \o "/" \o ToString(q.den) ]

----------------------------------------------------------------------------
(* The event bus and the broadcaster: src/src/websocket.ts 146-174, 291-300 *)

\* the Set s after s.add(x)
SetAdd(set, x) ==
  IF \E n \in 1..Len(set) : set[n] = x THEN set ELSE Append(set, x)

SetHas(set, x) == \E n \in 1..Len(set) : set[n] = x

\* clientSubscriptions.get(client)?.has(type)
HasSubscription(client, type) ==
  /\ clientSubscriptions[client] # <<>>
  /\ SetHas(clientSubscriptions[client][1], type)

\* what a synchronous run of callbacks has done so far: the frames handed to
\* each socket, the calls of the other listeners, the emit calls, and whether
\* an exception is on its way up the stack; `throwing` are the sockets whose
\* send throws during the run
IO(throwing) ==
  [ sent |-> sent, busLog |-> busLog, emitted |-> emitted, thrown |-> FALSE,
    throwing |-> throwing ]

\* mutant: the frame is put in front of the frames sent before
sendInFront(io, client, frame) ==
  IF client \in io.throwing THEN [io EXCEPT !.thrown = TRUE]
  ELSE [io EXCEPT !.sent[client] = << frame >> \o @]

\* mutant: the frame goes out twice
sendTwice(io, client, frame) ==
  IF client \in io.throwing THEN [io EXCEPT !.thrown = TRUE]
  ELSE [io EXCEPT !.sent[client] = @ \o << frame, frame >>]

\* client.send(frame): the frame goes out, or send throws
send(io, client, frame) ==
  IF client \in io.throwing THEN [io EXCEPT !.thrown = TRUE]
  ELSE [io EXCEPT !.sent[client] = Append(@, frame)]

\* mutant: the subscription set of the client is not consulted
ShouldSendToEveryOpenClient(client, type) ==
  readyState[client] = "OPEN"

\* lines 293-295
ShouldSend(client, type) ==
  /\ readyState[client] = "OPEN"
  /\ HasSubscription(client, type)

\* mutant: the broadcaster sends to every socket that ever connected
RecipientsEverConnected(type) ==
  LET Connected(client) == readyState[client] # "NONE"
  IN  SelectSeq(Sockets, Connected)

\* lines 292-295: the clients of wss.clients, in its order, that are sent the
\* frame of an event of this type
Recipients(type) ==
  LET Test(client) == ShouldSend(client, type)
  IN  SelectSeq(wssClients, Test)

RECURSIVE SendFrom(_, _, _, _)
\* the send calls of a forEach over `to` from the n-th on: forEach stops where
\* its callback throws
SendFrom(io, to, frame, n) ==
  IF n > Len(to) \/ io.thrown THEN io
  ELSE SendFrom(send(io, to[n], frame), to, frame, n + 1)

\* lines 291-300
broadcastEvent(io, event) ==
  SendFrom(io, Recipients(event.type), serializeWithBigInt(event), 1)

\* one registered callback called with the event: the broadcaster, or the
\* callback of another module, which takes the event and returns
Call(io, l, event) ==
  IF l = Broadcaster THEN broadcastEvent(io, event)
  ELSE [io EXCEPT !.busLog[l] = Append(@, event)]

RECURSIVE EmitFrom(_, _, _)
\* line 165 from the n-th listener on
EmitFrom(io, event, n) ==
  IF n > Len(listeners[event.type]) \/ io.thrown THEN io
  ELSE EmitFrom(Call(io, listeners[event.type][n], event), event, n + 1)

\* lines 164-166
emit(io, event) == EmitFrom([io EXCEPT !.emitted = Append(@, event)], event, 1)

RECURSIVE EmitAll(_, _, _)
\* the emit calls of one handler run from the n-th on: an exception out of
\* emit ends the run, which has no try/catch
EmitAll(io, events, n) ==
  IF n > Len(events) \/ io.thrown THEN io
  ELSE EmitAll(emit(io, events[n]), events, n + 1)

----------------------------------------------------------------------------
(* The WebSocket server: src/src/websocket.ts 184-259                      *)

\* the subscribe requests among the texts a client sends
SubscribeTexts ==
  { "{\"type\":\"subscribe\",\"events\":[\"block\"]}",
    "{\"type\":\"subscribe\",\"events\":\"networkStats\"}",
    "{\"type\":\"subscribe\",\"events\":[\"transaction\",\"block\"]}" }

\* the texts a client sends
MessageTexts ==
  { "{",
    "{\"type\":\"ping\"}",
    "{\"type\":\"subscribe\",\"events\":[\"block\"]}",
    "{\"type\":\"subscribe\",\"events\":\"networkStats\"}",
    "{\"type\":\"subscribe\",\"events\":[\"transaction\",\"block\"]}" }

\* JSON.parse(text): << the value >>, or <<>> where it throws.  `events` is
\* the member of that name: an array with its items, or another value
JSONparse(text) ==
  CASE text = "{\"type\":\"ping\"}" ->
         << [ type |-> "ping", events |-> [ array |-> FALSE, items |-> <<>>, value |-> Null ] ] >>
    [] text = "{\"type\":\"subscribe\",\"events\":[\"block\"]}" ->
         << [ type |-> "subscribe",
              events |-> [ array |-> TRUE, items |-> << "block" >>, value |-> Null ] ] >>
    [] text = "{\"type\":\"subscribe\",\"events\":\"networkStats\"}" ->
         << [ type |-> "subscribe",
              events |-> [ array |-> FALSE, items |-> <<>>, value |-> "networkStats" ] ] >>
    [] text = "{\"type\":\"subscribe\",\"events\":[\"transaction\",\"block\"]}" ->
         << [ type |-> "subscribe",
              events |-> [ array |-> TRUE, items |-> << "transaction", "block" >>, value |-> Null ] ] >>
    [] OTHER -> <<>>

\* line 233
EventTypesOf(data) ==
  IF data.events.array THEN data.events.items ELSE << data.events.value >>

RECURSIVE AddAll(_, _)
\* lines 237-239
AddAll(set, eventTypes) ==
  IF Len(eventTypes) = 0 THEN set
  ELSE AddAll(SetAdd(set, Head(eventTypes)), Tail(eventTypes))

\* mutant: the requested tags replace the set
SubscriptionsAfterReplacing(subscriptions, eventTypes) == AddAll(<<>>, eventTypes)

\* lines 234-239: the client's Set after the request
SubscriptionsAfter(subscriptions, eventTypes) == AddAll(subscriptions, eventTypes)

\* lines 244-247: JSON.stringify({type: 'subscribed', events: Array.from(subscriptions)})
Ack(subscriptions) == [ type |-> "subscribed", events |-> subscriptions ]

\* the sockets that have connected so far: the server hands them to the
\* 'connection' callback in the order of Sockets
Connected ==
  LET Test(client) == readyState[client] # "NONE"
  IN  SelectSeq(Sockets, Test)


\* mutant: a new client is subscribed to every event type
ConnectionSubscribesAll(ws) ==
  /\ readyState[ws] = "NONE"
  /\ ws = Sockets[Len(Connected) + 1]
  /\ readyState' = [readyState EXCEPT ![ws] = "OPEN"]
  /\ wssClients' = Append(wssClients, ws)
  /\ clientSubscriptions' =
       [clientSubscriptions EXCEPT ![ws] =
          << << "block", "transaction", "monTransfer", "monWalletActivity", "contractUsage",
                "walletContractInteraction", "walletGasUsage", "networkStats" >> >>]
  /\ UNCHANGED << pc, error, locals, env, cls, window, sent, received, bus,
                  liveChain, delivered, handlerFeedsWindow >>

\* lines 220-224: a client connects; the server has put it into wss.clients
Connection(ws) ==
  /\ readyState[ws] = "NONE"
  /\ ws = Sockets[Len(Connected) + 1]
  /\ readyState' = [readyState EXCEPT ![ws] = "OPEN"]
  /\ wssClients' = Append(wssClients, ws)
  /\ clientSubscriptions' = [clientSubscriptions EXCEPT ![ws] = << <<>> >>]
  /\ UNCHANGED << pc, error, locals, env, cls, window, sent, received, bus,
                  liveChain, delivered, handlerFeedsWindow >>

\* mutant: a message that cannot be handled ends the connection
HandledClosingOnError(ws, text, throws) ==
  LET parsed == JSONparse(text)
      old == IF clientSubscriptions[ws] # <<>> THEN clientSubscriptions[ws][1] ELSE <<>>
  IN  IF parsed = <<>>
      THEN [ subscriptions |-> <<>>, sent |-> sent[ws], readyState |-> "CLOSING" ]
      ELSE IF parsed[1].type = "subscribe"
      THEN LET subscriptions == SubscriptionsAfter(old, EventTypesOf(parsed[1]))
           IN  [ subscriptions |-> << subscriptions >>,
                 sent |-> IF throws THEN sent[ws]
                          ELSE Append(sent[ws], Ack(subscriptions)),
                 readyState |-> readyState[ws] ]
      ELSE [ subscriptions |-> clientSubscriptions[ws], sent |-> sent[ws],
             readyState |-> readyState[ws] ]

\* lines 228-251: what the 'message' callback leaves behind for its socket;
\* `throws` tells whether ws.send throws.  Whatever throws inside the try
\* (JSON.parse, ws.send) is caught and logged.
Handled(ws, text, throws) ==
  LET parsed == JSONparse(text)
      old == IF clientSubscriptions[ws] # <<>> THEN clientSubscriptions[ws][1] ELSE <<>>
  IN  IF parsed # <<>> /\ parsed[1].type = "subscribe"
      THEN LET subscriptions == SubscriptionsAfter(old, EventTypesOf(parsed[1]))
           IN  [ subscriptions |-> << subscriptions >>,
                 sent |-> IF throws THEN sent[ws]
                          ELSE Append(sent[ws], Ack(subscriptions)),
                 readyState |-> readyState[ws] ]
      ELSE [ subscriptions |-> clientSubscriptions[ws], sent |-> sent[ws],
             readyState |-> readyState[ws] ]

RECURSIVE SumLen(_, _)
SumLen(f, n) == IF n = 0 THEN 0 ELSE Len(f[Sockets[n]]) + SumLen(f, n - 1)

\* the number of messages handled so far
MessagesHandled == SumLen(received, Len(Sockets))

\* lines 227-252: the 'message' callback of an open socket runs with a text;
\* `throws` tells whether ws.send throws
Message(ws, text, throws) ==
  /\ readyState[ws] = "OPEN"
  /\ MessagesHandled < MaxMessages
  /\ received' = [received EXCEPT ![ws] = Append(@, text)]
  /\ clientSubscriptions' =
       [clientSubscriptions EXCEPT ![ws] = Handled(ws, text, throws).subscriptions]
  /\ sent' = [sent EXCEPT ![ws] = Handled(ws, text, throws).sent]
  /\ readyState' = [readyState EXCEPT ![ws] = Handled(ws, text, throws).readyState]
  /\ UNCHANGED << pc, error, locals, env, cls, window, wssClients, bus,
                  liveChain, delivered, handlerFeedsWindow >>

\* lines 227-252 for a socket whose 'close' event was handled: the callback
\* registered at line 227 is still the socket's 'message' listener and runs
\* with a text that was on its way; send on the closed socket hands nothing
\* to the client
MessageAfterClose(ws, text) ==
  /\ readyState[ws] = "CLOSED"
  /\ MessagesHandled < MaxMessages
  /\ received' = [received EXCEPT ![ws] = Append(@, text)]
  /\ clientSubscriptions' =
       [clientSubscriptions EXCEPT ![ws] = Handled(ws, text, TRUE).subscriptions]
  /\ UNCHANGED << pc, error, locals, env, cls, window, readyState, wssClients, sent,
                  bus, liveChain, delivered, handlerFeedsWindow >>

\* the closing handshake of a socket starts: it is no longer OPEN, and stays
\* in wss.clients until its 'close' event
Closing(ws) ==
  /\ readyState[ws] = "OPEN"
  /\ readyState' = [readyState EXCEPT ![ws] = "CLOSING"]
  /\ UNCHANGED << pc, error, locals, env, cls, window, wssClients, clientSubscriptions,
                  sent, received, bus, liveChain, delivered,
                  handlerFeedsWindow >>

\* lines 255-258: the 'close' event of a socket; the server has taken it out
\* of wss.clients
Close(ws) ==
  /\ readyState[ws] \in { "OPEN", "CLOSING" }
  /\ readyState' = [readyState EXCEPT ![ws] = "CLOSED"]
  /\ wssClients' = SelectSeq(wssClients, LAMBDA c : c # ws)
  /\ clientSubscriptions' = [clientSubscriptions EXCEPT ![ws] = <<>>]
  /\ UNCHANGED << pc, error, locals, env, cls, window, sent, received, bus,
                  liveChain, delivered, handlerFeedsWindow >>

\* the number of networkStats frames handed to the socket's send
StatsFrames(client) ==
  Len(SelectSeq(sent[client], LAMBDA frame : frame.type = "networkStats"))

\* lines 153-158: the listeners after eventEmitter.on(eventType, callback)
on(map, eventType, callback) == [map EXCEPT ![eventType] = SetAdd(@, callback)]

\* another module loads, before the driver delivers a block and before the
\* first interval, and registers its callback for these event types
Register(callback) ==
  /\ emitted = <<>>
  /\ \A client \in Clients : StatsFrames(client) = 0
  /\ ~SetHas(listeners["block"], callback)
  /\ listeners' = on(on(listeners, "block", callback), "networkStats", callback)
  /\ UNCHANGED << pc, error, locals, env, cls, window, sockets, busLog, emitted,
                  liveChain, delivered, handlerFeedsWindow >>

----------------------------------------------------------------------------
(* The interval: src/src/websocket.ts 190-217                              *)

\* lines 194-204
\* mutant: the height is that of the oldest block of the window
NetworkStatsEventOfOldest ==
  [ type |-> "networkStats",
    data |-> [ currentBlockHeight |-> BigIntV(recentBlocks[1].number),
               tps |-> NumQ(calculateTPS),
               windowSize |-> Num(TPS_WINDOW_BLOCKS) ] ]

NetworkStatsEvent ==
  [ type |-> "networkStats",
    data |-> [ currentBlockHeight |-> BigIntV(recentBlocks[Len(recentBlocks)].number),
               tps |-> NumQ(calculateTPS),
               windowSize |-> Num(TPS_WINDOW_BLOCKS) ] ]

\* lines 207-210: the clients that are sent the frame
StatsRecipients ==
  LET Test(client) == readyState[client] = "OPEN" /\ HasSubscription(client, "networkStats")
  IN  SelectSeq(wssClients, Test)

\* lines 190-217: the interval callback runs
TickUpTo(limit) ==
  /\ \A client \in Clients : StatsFrames(client) < limit
  /\ IF Len(recentBlocks) > 0
     THEN \E throwing \in SUBSET Clients :
            LET io == SendFrom(IO(throwing), StatsRecipients,
                               serializeWithBigInt(NetworkStatsEvent), 1)
            IN  sent' = io.sent
     ELSE sent' = sent
  /\ UNCHANGED << pc, error, locals, env, cls, window, readyState, wssClients,
                  clientSubscriptions, received, bus, liveChain, delivered,
                  handlerFeedsWindow >>

Tick == TickUpTo(MaxTicks)

----------------------------------------------------------------------------
(* The live handlers: src/src/index.ts 569-771, src/unnamed/part_001 45-226 *)

\* the transaction lists the block source returns to the live handler: none,
\* and two transactions of one sender, a call and a value transfer without
\* receiver
LiveBodies ==
  { <<>>,
    << [from |-> A, to |-> C,    value |-> 0, gas |-> 50001, input |-> "0xa9059cbb00"],
       [from |-> A, to |-> Null, value |-> 3, gas |-> 11,    input |-> "0x"] >> }

\* the first block the driver delivers
FirstBlock == CHOOSE b \in Blocks : TRUE

\* the block the driver delivers next: the one after the last whose run returned
NextBlock == FirstBlock + delivered

\* what the source returns for it: what it returned before, if it was asked
NextBodies ==
  IF delivered + 1 <= Len(liveChain) THEN { liveChain[delivered + 1] } ELSE LiveBodies

\* the number of runs of the live handler so far: each began with the emit of
\* its block event
Runs == Len(SelectSeq(emitted, LAMBDA e : e.type = "block"))

\* the run's emit calls are made one after the other without an await, so no
\* other callback runs in between; an exception out of emit rejects the run
\* and the driver delivers the block again
Emits(events) ==
  \E throwing \in SUBSET Clients :
    LET io == EmitAll(IO(throwing), events, 1)
    IN  /\ sent' = io.sent
        /\ busLog' = io.busLog
        /\ emitted' = io.emitted
        /\ delivered' = IF io.thrown THEN delivered ELSE delivered + 1

\* index.ts 569-771, run at most `limit` times
LiveHandlerUpTo(limit) ==
  /\ ~handlerFeedsWindow
  /\ Runs < limit
  /\ \E body \in NextBodies :
       /\ liveChain' = IF delivered + 1 <= Len(liveChain) THEN liveChain
                       ELSE Append(liveChain, body)
       /\ Emits(LiveEvents(Header(NextBlock), FullBlock(NextBlock, body)))
  /\ UNCHANGED << pc, error, locals, env, cls, window, readyState, wssClients,
                  clientSubscriptions, received, listeners,
                  handlerFeedsWindow >>

LiveHandler == LiveHandlerUpTo(MaxLiveRuns)

\* part_001 45-226, run at most `limit` times
TrackedLiveHandlerUpTo(limit) ==
  /\ handlerFeedsWindow
  /\ Runs < limit
  /\ \E body \in NextBodies :
       /\ liveChain' = IF delivered + 1 <= Len(liveChain) THEN liveChain
                       ELSE Append(liveChain, body)
       /\ recentBlocks' = updateBlockTracking(NextBlock, Header(NextBlock).timestamp, Len(body))
       /\ tracked' = Append(tracked, BlockInfo(NextBlock, Header(NextBlock).timestamp, Len(body)))
       /\ Emits(TrackedEvents(Header(NextBlock), FullBlock(NextBlock, body)))
  /\ UNCHANGED << pc, error, locals, env, cls, TPS_WINDOW_BLOCKS, tps, readyState,
                  wssClients, clientSubscriptions, received, listeners,
                  handlerFeedsWindow >>

TrackedLiveHandler == TrackedLiveHandlerUpTo(MaxLiveRuns)

\* the window sizes the environment configures
WindowSizes == 1..MaxWindow

InitLive ==
  /\ pc = "idle"
  /\ error = "none"
  /\ block = Header(0)
  /\ txList = <<>>
  /\ transactionCount = 0
  /\ i = 0
  /\ k = 0
  /\ contractStats = <<>>
  /\ walletContractStats = <<>>
  /\ walletGasStats = <<>>
  /\ monTransfersList = <<>>
  /\ monWalletStats = <<>>
  /\ txTypeCounts = ZeroCounts
  /\ store = EmptyStore
  /\ chain = [ b \in Blocks |-> <<>> ]
  /\ insertFailures = 0
  /\ reindexes = 0
  /\ completed = {}
  /\ firstOutput = [ b \in Blocks |-> <<>> ]
  /\ arg = NoArg
  /\ res = <<>>
  /\ TPS_WINDOW_BLOCKS = MaxWindow
  /\ handlerFeedsWindow \in BOOLEAN
  /\ LiveStart

NextLive ==
  \/ \E ws \in Clients : Connection(ws)
  \/ \E ws \in Clients, text \in SubscribeTexts : Message(ws, text, FALSE)
  \/ \E ws \in Clients : Closing(ws)
  \/ \E ws \in Clients : Close(ws)
  \/ \E callback \in Probes : Register(callback)
  \/ Tick
  \/ LiveHandler
  \/ TrackedLiveHandler

SpecLive == InitLive /\ [][NextLive]_vars

----------------------------------------------------------------------------
(* The subscription protocol on its own: the connection, message and close *)
(* callbacks with every text a client sends, while no block is delivered   *)

NextSubs ==
  \/ \E ws \in Clients : Connection(ws)
  \/ \E ws \in Clients, text \in MessageTexts, throws \in BOOLEAN : Message(ws, text, throws)
  \/ \E ws \in Clients : Closing(ws)
  \/ \E ws \in Clients : Close(ws)

SpecSubs == Init /\ [][NextSubs]_vars

----------------------------------------------------------------------------
(* Delivery over several blocks: clients connect and subscribe while the   *)
(* driver runs a live handler block after block                            *)

\* the subscribe requests of a client that follows blocks, or blocks and
\* their transactions
OrderTexts ==
  { "{\"type\":\"subscribe\",\"events\":[\"block\"]}",
    "{\"type\":\"subscribe\",\"events\":[\"transaction\",\"block\"]}" }

NextOrder ==
  \/ \E ws \in Clients : Connection(ws)
  \/ \E ws \in Clients, text \in OrderTexts : Message(ws, text, FALSE)
  \/ LiveHandlerUpTo(MaxOrderedRuns)
  \/ TrackedLiveHandlerUpTo(MaxOrderedRuns)

SpecOrder == InitLive /\ [][NextOrder]_vars

----------------------------------------------------------------------------
(* The interval callback over several blocks: clients subscribe to         *)
(* networkStats while blocks are tracked and the interval fires            *)

StatsTexts == { "{\"type\":\"subscribe\",\"events\":\"networkStats\"}" }

NextTicks ==
  \/ \E ws \in Clients : Connection(ws)
  \/ \E ws \in Clients, text \in StatsTexts : Message(ws, text, FALSE)
  \/ TickUpTo(MaxStatsFrames)
  \/ LiveHandlerUpTo(MaxOrderedRuns)
  \/ TrackedLiveHandlerUpTo(MaxOrderedRuns)

SpecTicks == InitLive /\ [][NextTicks]_vars

----------------------------------------------------------------------------
(* The subscription registry under every order of the callbacks of a       *)
(* socket, a 'message' callback after the 'close' callback included        *)

NextRegistry ==
  \/ \E ws \in Clients : Connection(ws)
  \/ \E ws \in Clients, text \in SubscribeTexts : Message(ws, text, FALSE)
  \/ \E ws \in Clients : Closing(ws)
  \/ \E ws \in Clients : Close(ws)
  \/ \E ws \in Clients, text \in SubscribeTexts : MessageAfterClose(ws, text)

SpecRegistry == Init /\ [][NextRegistry]_vars

----------------------------------------------------------------------------
(* The TPS window on its own: updateBlockTracking called block after block *)
(* and calculateTPS applied in between, for each configured window size    *)

\* the seconds between two blocks, and the transactions of one
TrackInputs ==
  IF TPS_WINDOW_BLOCKS = ScenarioWindow
  THEN { [ dt |-> 1, count |-> 5 ] }
  ELSE { [ dt |-> d, count |-> c ] : d \in { 0, 1 }, c \in { 0, 5 } }

\* how many blocks the run tracks
TrackLimit == IF TPS_WINDOW_BLOCKS = ScenarioWindow THEN ScenarioWindow ELSE MaxTracked

\* part_001 line 57, the call alone: the next block of the chain is tracked
TrackBlock ==
  /\ Len(tracked) < TrackLimit
  /\ \E in \in TrackInputs :
       LET blockNumber == FirstBlock + Len(tracked)
           timestamp == IF tracked = <<>> THEN 100
                        ELSE tracked[Len(tracked)].timestamp + in.dt
       IN  /\ recentBlocks' = updateBlockTracking(blockNumber, timestamp, in.count)
           /\ tracked' = Append(tracked, BlockInfo(blockNumber, timestamp, in.count))
  /\ tps' = <<>>
  /\ UNCHANGED << pc, error, locals, env, cls, TPS_WINDOW_BLOCKS, sockets, bus,
                  liveChain, delivered, handlerFeedsWindow >>

\* websocket.ts line 196, the call alone: calculateTPS() reads the window
Calculate ==
  /\ tps = <<>>
  /\ tps' = << calculateTPS >>
  /\ UNCHANGED << pc, error, locals, env, cls, TPS_WINDOW_BLOCKS, recentBlocks,
                  tracked, sockets, bus, liveChain, delivered, handlerFeedsWindow >>

InitTps ==
  /\ pc = "idle"
  /\ error = "none"
  /\ block = Header(0)
  /\ txList = <<>>
  /\ transactionCount = 0
  /\ i = 0
  /\ k = 0
  /\ contractStats = <<>>
  /\ walletContractStats = <<>>
  /\ walletGasStats = <<>>
  /\ monTransfersList = <<>>
  /\ monWalletStats = <<>>
  /\ txTypeCounts = ZeroCounts
  /\ store = EmptyStore
  /\ chain = [ b \in Blocks |-> <<>> ]
  /\ insertFailures = 0
  /\ reindexes = 0
  /\ completed = {}
  /\ firstOutput = [ b \in Blocks |-> <<>> ]
  /\ arg = NoArg
  /\ res = <<>>
  /\ TPS_WINDOW_BLOCKS \in WindowSizes \cup { ScenarioWindow }
  /\ handlerFeedsWindow = TRUE
  /\ LiveStart

NextTps ==
  \/ TrackBlock
  \/ Calculate

SpecTps == InitTps /\ [][NextTps]_vars

----------------------------------------------------------------------------
(* Call data as bytes, for stating what a selector is                      *)

HexDigits == << "0", "1", "2", "3", "4", "5", "6", "7", "8", "9",
                "a", "b", "c", "d", "e", "f" >>

\* the value of one hexadecimal digit, upper or lower case
HexValue(c) ==
  CASE c = "A" -> 10 [] c = "B" -> 11 [] c = "C" -> 12
    [] c = "D" -> 13 [] c = "E" -> 14 [] c = "F" -> 15
    [] OTHER -> (CHOOSE n \in 1..16 : HexDigits[n] = c) - 1

\* the bytes of a 0x-prefixed hex string
CallBytes(input) ==
  [ n \in 1..((Len(input) - 2) \div 2) |->
      16 * HexValue(SubSeq(input, 2 * n + 1, 2 * n + 1))
         + HexValue(SubSeq(input, 2 * n + 2, 2 * n + 2)) ]

\* the 4-byte selector of the call data, <<>> when it has no full selector
SelectorOf(input) ==
  IF Len(CallBytes(input)) >= 4 THEN SubSeq(CallBytes(input), 1, 4) ELSE <<>>

\* the category the static table gives a selector, "other" when it has none
TableCategory(sel) ==
  IF \E q \in DOMAIN signatures : CallBytes(q) = sel
  THEN signatures[CHOOSE q \in DOMAIN signatures : CallBytes(q) = sel]
  ELSE "other"

----------------------------------------------------------------------------
(* Claims                                                                  *)

\* C2: the classifier is total and depends on the selector only: whatever the
\* call data, classifyTransactionByMethodSig returns one of the six categories;
\* every other call data with the same 4-byte selector gets the same category;
\* a selector outside the static table gives "other"; and a transaction with
\* value > 0 and empty call data is classified "transfer".
C2_ClassifierTotal ==
  res # <<>> =>
    /\ res[1].bySig \in Categories
    /\ res[1].txType \in Categories
    /\ \A d \in CallData :
         SelectorOf(d) = SelectorOf(InputOf(arg))
           => classifyTransactionByMethodSig(d) = res[1].bySig
    /\ (~ \E q \in DOMAIN signatures : CallBytes(q) = SelectorOf(InputOf(arg)))
         => res[1].bySig = "other"
    /\ (arg.value > 0 /\ CallBytes(InputOf(arg)) = <<>>) => res[1].txType = "transfer"

\* C2 witness: an upper-case spelling of a table selector, sent with value,
\* has been classified through the table
C2_Witness ==
  /\ res # <<>>
  /\ InputOf(arg) = "0xA9059CBB00"
  /\ arg.value > 0
  /\ res[1].bySig = "transfer"
  /\ res[1].txType = "transfer"

\* C3: the value rule applies exactly when value > 0 and the call data is
\* shorter than a full selector; with a full selector (4 bytes or more) the
\* category is the one the table gives the selector, whatever the value.
C3_ValueRuleOnlyWithoutSelector ==
  res # <<>> =>
    IF arg.value > 0 /\ Len(CallBytes(InputOf(arg))) < 4
    THEN res[1].txType = "transfer"
    ELSE res[1].txType = TableCategory(SelectorOf(InputOf(arg)))

----------------------------------------------------------------------------
(* What the source returned for a block, for stating claims about its rows *)

\* the transactions of block b as the source returned them (b was asked for)
SourceTxs(b) == FullBlock(b, chain[b][1])

RECURSIVE SumSeq(_)
SumSeq(q) == IF Len(q) = 0 THEN 0 ELSE Head(q) + SumSeq(Tail(q))

\* positions (from 0) of the transactions of block b that satisfy P
Positions(b, P(_)) == { n \in 0..(Len(SourceTxs(b)) - 1) : P(SourceTxs(b)[n + 1]) }

\* sum of f over the transactions of block b that satisfy P
SumWhere(b, P(_), f(_)) ==
  SumSeq([ n \in 1..Len(SourceTxs(b)) |->
             IF P(SourceTxs(b)[n]) THEN f(SourceTxs(b)[n]) ELSE 0 ])

StoredBlocks(table) == { BlockOf(table, store[table][n]) : n \in 1..Len(store[table]) }

RowSet(table, b) ==
  { store[table][n] : n \in { m \in 1..Len(store[table]) : BlockOf(table, store[table][m]) = b } }

\* C1: in every stored BlockRecord the six category counts add up to
\* transactionCount.
C1_CategoryCountsSum ==
  \A r \in { store.blocks[n] : n \in 1..Len(store.blocks) } :
    r.transferCount + r.swapCount + r.mintCount + r.burnCount
      + r.stakeCount + r.otherCount = r.transactionCount

\* C1 witness: a BlockRecord of three transactions, two of them in one
\* category, is stored
C1_Witness ==
  \E n \in 1..Len(store.blocks) :
    /\ store.blocks[n].transactionCount = 3
    /\ store.blocks[n].transferCount = 2
    /\ store.blocks[n].swapCount = 1

\* C4: the transactionType of every ContractUsageRecord and of every
\* WalletContractInteractionRecord is the category of the transaction of
\* lowest index that went to that key in the block.
C4_FirstObservedWins ==
  \A b \in Blocks :
    /\ \A r \in RowSet("contractUsage", b) :
         \E t \in RowSet("transactions", b) :
           /\ t.contractAddress = r.contractAddress
           /\ \A u \in RowSet("transactions", b) :
                u.contractAddress = r.contractAddress
                  => t.transactionIndex <= u.transactionIndex
           /\ r.transactionType = t.transactionType
    /\ \A r \in RowSet("walletContractInteractions", b) :
         \E t \in RowSet("transactions", b) :
           /\ t.contractAddress = r.contractAddress
           /\ t.fromAddress = r.walletAddress
           /\ \A u \in RowSet("transactions", b) :
                (u.contractAddress = r.contractAddress /\ u.fromAddress = r.walletAddress)
                  => t.transactionIndex <= u.transactionIndex
           /\ r.transactionType = t.transactionType

\* C4 witness: a contract and a wallet-contract pair that took transactions of
\* two categories have their rows stored
C4_Witness ==
  \E b \in Blocks :
    /\ \E r \in RowSet("contractUsage", b) :
         \E t, u \in RowSet("transactions", b) :
           /\ t.contractAddress = r.contractAddress
           /\ u.contractAddress = r.contractAddress
           /\ t.transactionIndex < u.transactionIndex
           /\ t.transactionType # u.transactionType
    /\ \E r \in RowSet("walletContractInteractions", b) :
         \E t, u \in RowSet("transactions", b) :
           /\ t.contractAddress = r.contractAddress
           /\ u.contractAddress = r.contractAddress
           /\ t.fromAddress = r.walletAddress
           /\ u.fromAddress = r.walletAddress
           /\ t.transactionIndex < u.transactionIndex
           /\ t.transactionType # u.transactionType

\* C5: every ContractUsageRecord counts the transactions of the block sent to
\* that contract, sums their gas, and carries the truncated quotient of the two.
C5_ContractUsageTotals ==
  \A b \in Blocks :
    \A r \in RowSet("contractUsage", b) :
      LET To(tx) == tx.to = r.contractAddress
          Gas(tx) == tx.gas
      IN  /\ r.transactionCount = Cardinality(Positions(b, To))
          /\ r.gasUsed = SumWhere(b, To, Gas)
          /\ r.transactionCount > 0
          /\ r.avgGasPerTx * r.transactionCount <= r.gasUsed
          /\ r.gasUsed < (r.avgGasPerTx + 1) * r.transactionCount

\* C5 witness: a stored ContractUsageRecord of several transactions whose gas
\* does not divide evenly, in a block with a transaction to another receiver
C5_Witness ==
  \E b \in Blocks :
    \E r \in RowSet("contractUsage", b) :
      /\ r.transactionCount >= 2
      /\ r.avgGasPerTx * r.transactionCount < r.gasUsed
      /\ Len(SourceTxs(b)) > r.transactionCount

\* C6: in a processed block exactly the transactions with value > 0 have a
\* MonTransferRecord, keyed by block and index; every wallet's sentCount and
\* totalSent count each of its value transactions once, its receivedCount and
\* totalReceived each value transaction it receives once, and transferCount
\* both; a value transaction without receiver updates no receiver.
C6_MonTransfersAndActivity ==
  \A b \in completed :
    LET HasValue(tx) == tx.value > 0
        Amount(tx) == tx.value
    IN  /\ { r.id : r \in RowSet("monTransfers", b) }
             = { ToString(b) \o "-" \o ToString(n) : n \in Positions(b, HasValue) }
        /\ Len(RowsOfBlock(store, b).monTransfers) = Cardinality(Positions(b, HasValue))
        /\ \A w \in {A, B, C, D, Null, ZeroAddress} :
             LET Sent(tx) == tx.value > 0 /\ tx.from = w
                 Received(tx) == tx.value > 0 /\ tx.to = w
                 rows == { r \in RowSet("monWalletActivity", b) : r.walletAddress = w }
             IN  IF w \in {Null, ZeroAddress}
                    \/ Positions(b, Sent) \cup Positions(b, Received) = {}
                 THEN rows = {}
                 ELSE /\ Cardinality(rows) = 1
                      /\ \A r \in rows :
                           /\ r.sentCount = Cardinality(Positions(b, Sent))
                           /\ r.totalSent = SumWhere(b, Sent, Amount)
                           /\ r.receivedCount = Cardinality(Positions(b, Received))
                           /\ r.totalReceived = SumWhere(b, Received, Amount)
                           /\ r.transferCount = r.sentCount + r.receivedCount

\* C6 witness: a processed block with a value transaction without receiver
\* and a transaction without value
C6_Witness ==
  \E b \in completed :
    /\ \E r \in RowSet("monTransfers", b) : r.toAddress = ZeroAddress
    /\ \E t \in RowSet("transactions", b) : t.value = 0
    /\ \E r \in RowSet("monWalletActivity", b) : r.sentCount = 1 /\ r.receivedCount = 0

\* C7: once block 100 with the three scenario transactions is processed, their
\* categories are transfer, transfer, swap; there is one MonTransferRecord, for
\* (a); A has totalSent 10^18 wei and B totalReceived 10^18 wei; and the
\* ContractUsageRecord of C has transactionCount 2 and transactionType transfer.
C7_Scenario ==
  (100 \in completed /\ chain[100] = << ScenarioBody >>) =>
    LET rows == RowsOfBlock(store, 100)
    IN  /\ [ n \in 1..Len(rows.transactions) |-> rows.transactions[n].transactionType ]
             = << "transfer", "transfer", "swap" >>
        /\ Len(rows.monTransfers) = 1
        /\ rows.monTransfers[1].id = "100-0"
        /\ rows.monTransfers[1].amount = OneMon
        /\ \E r \in RowSet("monWalletActivity", 100) :
             r.walletAddress = A /\ r.totalSent = OneMon
        /\ \E r \in RowSet("monWalletActivity", 100) :
             r.walletAddress = B /\ r.totalReceived = OneMon
        /\ \E r \in RowSet("contractUsage", 100) :
             /\ r.contractAddress = C
             /\ r.transactionCount = 2
             /\ r.transactionType = "transfer"
        /\ \A r \in RowSet("contractUsage", 100) :
             r.contractAddress = C => r.transactionCount = 2 /\ r.transactionType = "transfer"

\* C7 witness: the scenario block has been processed
C7_Witness ==
  /\ 100 \in completed
  /\ chain[100] = << ScenarioBody >>
  /\ Len(store.transactions) = 3

\* C8: a run that derives a block again, from the same header and the same
\* transactions, leaves in every table the rows the first run left, in the
\* same order.
C8_SameRowsAgain ==
  (pc = "done" /\ firstOutput[block.number] # <<>>) =>
    RowsOfBlock(store, block.number) = firstOutput[block.number][1]

\* C8 witness: after a re-index a second run of a block with contract, wallet
\* and MON rows has made all its inserts
C8_Witness ==
  /\ pc = "done"
  /\ firstOutput[block.number] # <<>>
  /\ reindexes > 0
  /\ Len(store.contractUsage) >= 1
  /\ Len(store.walletGasUsage) >= 2
  /\ Len(store.monWalletActivity) >= 2

\* the primary keys a table holds for block b once all its rows are written
ExpectedKeys(table, b) ==
  LET txs == SourceTxs(b)
      idx == 1..Len(txs)
      pre == ToString(b) \o "-"
  IN  CASE table = "transactions" -> { txs[n].hash : n \in idx }
        [] table = "blocks" -> { b }
        [] table = "contractUsage" ->
             { pre \o txs[n].to : n \in { m \in idx : txs[m].to # Null } }
        [] table = "walletContractInteractions" ->
             { pre \o txs[n].from \o "-" \o txs[n].to : n \in { m \in idx : txs[m].to # Null } }
        [] table = "walletGasUsage" -> { pre \o txs[n].from : n \in idx }
        [] table = "monTransfers" ->
             { pre \o ToString(n - 1) : n \in { m \in idx : txs[m].value > 0 } }
        [] table = "monWalletActivity" ->
             { pre \o txs[n].from : n \in { m \in idx : txs[m].value > 0 } }
               \cup { pre \o txs[n].to : n \in { m \in idx : txs[m].value > 0 /\ txs[m].to # Null } }

StoredKeys(table, b) == { PrimaryKey(table, r) : r \in RowSet(table, b) }

NoRowOf(b) == \A t \in Tables : RowSet(t, b) = {}

EveryRowOf(b) ==
  /\ chain[b] # <<>>
  /\ \A t \in Tables : StoredKeys(t, b) = ExpectedKeys(t, b)

\* C9: the rows of a block are committed as one unit: in every state of the
\* store either every row of block N is present or none is.
C9_AllOrNothing ==
  \A b \in Blocks : NoRowOf(b) \/ EveryRowOf(b)

\* C10: re-processing a block whose rows are already persisted is a no-op:
\* the run does not end in the duplicate-key rejection and the rows of the
\* block stay as they were.
C10_DuplicateAbsorbed ==
  \A b \in completed :
    /\ ~(pc = "idle" /\ block.number = b /\ error = "duplicate")
    /\ RowsOfBlock(store, b) = firstOutput[b][1]

----------------------------------------------------------------------------
(* Failure of the block source                                             *)

\* C11: when the block source fails to return the block, the handler run
\* makes no insert, emits no event, leaves the TPS window as it was and ends
\* with the source's failure.
C11_SourceFailureDoesNothing ==
  [][ (pc = "idle" /\ error # "source" /\ error' = "source")
        => /\ store' = store
           /\ completed' = completed
           /\ emitted' = emitted
           /\ sent' = sent
           /\ recentBlocks' = recentBlocks
           /\ tracked' = tracked
           /\ pc' = "idle" ]_vars

\* the source failed for a block of which an earlier run had stored rows
C11_Witness == error = "source" /\ pc = "idle" /\ store # EmptyStore

----------------------------------------------------------------------------
(* Delivery                                                                *)

\* the events of a sequence that have this type
OfType(events, type) == SelectSeq(events, LAMBDA e : e.type = type)

\* the frames of events (not acknowledgments) handed to the socket's send
EventFrames(client) == SelectSeq(sent[client], LAMBDA frame : frame.type \in EventTypes)

\* C12: a failure inside emit (a listener that throws, a send that throws) is
\* not raised to the caller of emit, so every run of the live handler that
\* began to emit has returned, and does not keep the event from the remaining
\* listeners, so a listener registered for 'block' has been called with every
\* block event that was emitted.
C12_FailureIsolated ==
  /\ delivered = Runs
  /\ \A l \in Probes :
       SetHas(listeners["block"], l) => busLog[l] = OfType(emitted, "block")

\* the elements of a sequence
Elements(q) == { q[n] : n \in 1..Len(q) }

\* the frames the step hands to the socket's send
NewFrames(client) == SubSeq(sent'[client], Len(sent[client]) + 1, Len(sent'[client]))

\* the tags the client has asked for in the subscribe requests handled so far
RECURSIVE RequestedIn(_)
RequestedIn(texts) ==
  IF Len(texts) = 0 THEN {}
  ELSE LET parsed == JSONparse(Head(texts))
       IN  (IF parsed # <<>> /\ parsed[1].type = "subscribe"
            THEN Elements(EventTypesOf(parsed[1])) ELSE {})
           \cup RequestedIn(Tail(texts))

Requested(client) == RequestedIn(received[client])

\* C13: a frame of an event of type t is handed to a client's send only in a
\* step that starts with t in the client's subscription set and the client's
\* socket open; and the event frames a client has been sent are all of types
\* it has asked for, so that a client that asked only for 'block' has no
\* 'transaction' frame.
C13_OnlySubscribedAndOpen ==
  /\ [](\A client \in Clients :
          \A frame \in Elements(EventFrames(client)) : frame.type \in Requested(client))
  /\ [][ \A client \in Clients :
           \A frame \in Elements(NewFrames(client)) :
             frame.type \in EventTypes
               => /\ readyState[client] = "OPEN"
                  /\ HasSubscription(client, frame.type) ]_vars

\* a client that asked only for 'block' and has a 'block' frame, while a
\* 'transaction' event was emitted and sent to another client
C13_Witness ==
  \E client, other \in Clients :
    /\ Requested(client) = { "block" }
    /\ OfType(EventFrames(client), "block") # <<>>
    /\ OfType(emitted, "transaction") # <<>>
    /\ OfType(EventFrames(other), "transaction") # <<>>

\* C14: once the 'close' event of a client has been handled, no step hands a
\* frame to that client's send, whatever is emitted and whenever the interval
\* callback runs.
C14_NothingAfterClose ==
  [][ \A client \in Clients :
        readyState[client] = "CLOSED" => sent'[client] = sent[client] ]_vars

\* a closed client that had asked for 'block' and was sent no event, while
\* another client was sent the block event that was emitted
C14_Witness ==
  \E client, other \in Clients :
    /\ readyState[client] = "CLOSED"
    /\ "block" \in Requested(client)
    /\ EventFrames(client) = <<>>
    /\ OfType(EventFrames(other), "block") # <<>>

\* C15: a client that has connected and has not sent a subscribe request has
\* an empty subscription set while it is open, and has been sent no frame.
C15_NothingBeforeSubscribe ==
  \A client \in Clients :
    (readyState[client] # "NONE" /\ Requested(client) = {})
      => /\ sent[client] = <<>>
         /\ readyState[client] = "OPEN" => clientSubscriptions[client] = << <<>> >>

\* an open client that has sent nothing, while events are emitted and the
\* interval sends its frames to another client
C15_Witness ==
  \E client, other \in Clients :
    /\ readyState[client] = "OPEN"
    /\ received[client] = <<>>
    /\ OfType(EventFrames(other), "block") # <<>>
    /\ StatsFrames(other) > 0

\* C20: whenever the interval callback has sent a networkStats frame, the
\* throughput summary went through emit, so a networkStats event is among the
\* emitted events and every listener registered for 'networkStats' has been
\* called with it.
C20_StatsThroughBus ==
  \A client \in Clients :
    StatsFrames(client) > 0
      => /\ OfType(emitted, "networkStats") # <<>>
         /\ \A l \in Probes :
              SetHas(listeners["networkStats"], l)
                => OfType(busLog[l], "networkStats") # <<>>

----------------------------------------------------------------------------
(* Subscription                                                            *)

\* the message the step's 'message' callback ran with, for a socket for which
\* the step is one
MessageOf(ws) == received'[ws][Len(received'[ws])]

IsSubscribe(text) == JSONparse(text) # <<>> /\ JSONparse(text)[1].type = "subscribe"

\* the socket's Set before and after the step
SetBefore(ws) == Elements(clientSubscriptions[ws][1])

SetAfter(ws) == Elements(clientSubscriptions'[ws][1])

\* C16: a subscribe request makes the client's set the union of the set it
\* had and the requested tags (so tags already present change nothing and no
\* tag is removed), and the acknowledgment, when one is sent, lists exactly
\* the tags of the set after the request, each once.
C16_SubscribeIsUnion ==
  [][ \A ws \in Clients :
        (received'[ws] # received[ws] /\ IsSubscribe(MessageOf(ws)))
          => /\ clientSubscriptions'[ws] # <<>>
             /\ SetAfter(ws) = SetBefore(ws)
                                 \cup Elements(EventTypesOf(JSONparse(MessageOf(ws))[1]))
             /\ \A frame \in Elements(NewFrames(ws)) :
                  /\ frame.type = "subscribed"
                  /\ Elements(frame.events) = SetAfter(ws)
                  /\ Len(frame.events) = Cardinality(SetAfter(ws)) ]_vars

\* a client whose second request added a tag to the one it had, and whose
\* two acknowledgments list one and two tags
C16_Witness ==
  \E ws \in Clients :
    /\ Len(received[ws]) = 2
    /\ clientSubscriptions[ws] # <<>>
    /\ Elements(clientSubscriptions[ws][1]) = { "block", "networkStats" }
    /\ Len(sent[ws]) = 2
    /\ Len(sent[ws][1].events) = 1
    /\ Len(sent[ws][2].events) = 2

\* C17: a message that JSON.parse rejects leaves the client's subscription
\* set, the frames sent to it and its socket's state as they were, and a
\* subscribe request handled after it is taken into the set as any other.
C17_UnparseableIgnored ==
  [][ \A ws \in Clients :
        received'[ws] # received[ws]
          => IF JSONparse(MessageOf(ws)) = <<>>
             THEN /\ clientSubscriptions'[ws] = clientSubscriptions[ws]
                  /\ sent'[ws] = sent[ws]
                  /\ readyState'[ws] = "OPEN"
             ELSE IsSubscribe(MessageOf(ws))
                    => /\ clientSubscriptions'[ws] # <<>>
                       /\ Elements(EventTypesOf(JSONparse(MessageOf(ws))[1]))
                            \subseteq SetAfter(ws) ]_vars

\* a client whose first message could not be parsed and whose subscribe
\* request after it was acknowledged
C17_Witness ==
  \E ws \in Clients :
    /\ Len(received[ws]) = 2
    /\ JSONparse(received[ws][1]) = <<>>
    /\ IsSubscribe(received[ws][2])
    /\ readyState[ws] = "OPEN"
    /\ Len(sent[ws]) = 1
    /\ sent[ws][1].type = "subscribed"
    /\ Elements(sent[ws][1].events) = Elements(clientSubscriptions[ws][1])

----------------------------------------------------------------------------
(* The TPS window                                                          *)

\* the last n entries of a sequence
LastOf(q, n) == SubSeq(q, Len(q) - n + 1, Len(q))

\* C18: after any sequence of updateBlockTracking calls the window holds at
\* most TPS_WINDOW_BLOCKS entries, and they are the last
\* min(n, TPS_WINDOW_BLOCKS) of the n blocks tracked, in the order of
\* arrival; this is the window every calculateTPS call reads.
C18_WindowIsLastTracked ==
  /\ Len(recentBlocks) <= TPS_WINDOW_BLOCKS
  /\ recentBlocks = LastOf(tracked, Min(Len(tracked), TPS_WINDOW_BLOCKS))

\* more blocks tracked than the window holds, the window full, and
\* calculateTPS applied to it
C18_Witness ==
  /\ Len(tracked) > TPS_WINDOW_BLOCKS + 1
  /\ Len(recentBlocks) = TPS_WINDOW_BLOCKS
  /\ tps # <<>>

\* C19: calculateTPS returns 0 for a window of fewer than 2 entries and for a
\* window whose newest and oldest timestamps are equal, and otherwise the
\* sum of the window's transaction counts divided by the difference of the
\* two timestamps; ten blocks at timestamps 100..109 with 5 transactions
\* each give 50/9.
C19_TpsFormula ==
  tps # <<>>
    => LET n == Len(recentBlocks)
           span == recentBlocks[n].timestamp - recentBlocks[1].timestamp
           result == tps[1]
       IN  /\ result.den > 0
           /\ IF n < 2 THEN result.num = 0
              ELSE IF span = 0 THEN result.num = 0
              ELSE result.num * span = TotalTransactions(recentBlocks) * result.den
           /\ ( /\ n = 10
                /\ \A m \in 1..n : /\ recentBlocks[m].timestamp = 99 + m
                                   /\ recentBlocks[m].transactionCount = 5 )
                => result = [ num |-> 50, den |-> 9 ]

\* calculateTPS applied to the ten blocks of the scenario
C19_Witness ==
  /\ tps = << [ num |-> 50, den |-> 9 ] >>
  /\ Len(recentBlocks) = 10
  /\ recentBlocks[1].timestamp = 100
  /\ recentBlocks[10].timestamp = 109
  /\ TotalTransactions(recentBlocks) = 50

----------------------------------------------------------------------------
(* The live handler and the TPS window                                     *)

\* C21: after the live handler has run for the first n blocks of the chain,
\* updateBlockTracking has been called exactly n times, the k-th time with
\* the number, the timestamp and the transaction count of the k-th block.
C21_FedOncePerBlock ==
  /\ Len(tracked) = delivered
  /\ \A n \in 1..Len(tracked) :
       n <= Len(liveChain)
         => tracked[n] = BlockInfo(FirstBlock + n - 1, Header(FirstBlock + n - 1).timestamp,
                                   Len(liveChain[n]))

----------------------------------------------------------------------------
(* Order and number of deliveries                                          *)

RECURSIVE IsSubsequence(_, _)
\* a is b with some of its elements left out
IsSubsequence(a, b) ==
  IF Len(a) = 0 THEN TRUE
  ELSE IF Len(b) = 0 THEN FALSE
  ELSE IF Head(a) = Head(b) THEN IsSubsequence(Tail(a), Tail(b))
  ELSE IsSubsequence(a, Tail(b))

\* the frames of a sequence of events
Serialized(events) == [ n \in 1..Len(events) |-> serializeWithBigInt(events[n]) ]

\* the frames of emitted events a client has been sent
BusFrames(client) ==
  SelectSeq(sent[client], LAMBDA frame : frame.type \in EventTypes \ { "networkStats" })

\* the number of the block an event of type 'block' or 'transaction' is of
BlockNumberOf(event) ==
  LET text == IF event.type = "block" THEN event.data.number.v
              ELSE event.data.blockNumber.v
  IN  CHOOSE b \in FirstBlock..(FirstBlock + Len(emitted)) : ToString(b) = text

\* the index of the transaction an event of type 'transaction' is of
IndexOf(event) ==
  CHOOSE idx \in 0..Len(emitted) :
    event.data.hash.v = TxHash(BlockNumberOf(event), idx)

\* the position in `emitted` of the block event that opened the run which
\* emitted the n-th event, 0 if there is none
RunOf(n) ==
  LET opened == { m \in 1..n : emitted[m].type = "block" }
  IN  IF opened = {} THEN 0 ELSE CHOOSE m \in opened : \A o \in opened : o <= m

\* C22: the frames of emitted events a client has been sent are, in that
\* order, frames of the emitted events in the order of their emit calls; and
\* the emit calls are in order: every event comes after the block event of
\* its run, the transaction events of a run are of that block and in
\* increasing index, and no block event is of a block before that of an
\* earlier one.
C22_FramesInEmissionOrder ==
  /\ \A client \in Clients : IsSubsequence(BusFrames(client), Serialized(emitted))
  /\ \A n \in 1..Len(emitted) :
       /\ RunOf(n) # 0
       /\ emitted[n].type = "transaction"
            => BlockNumberOf(emitted[n]) = BlockNumberOf(emitted[RunOf(n)])
       /\ \A m \in 1..(n - 1) :
            /\ (emitted[m].type = "block" /\ emitted[n].type = "block")
                 => BlockNumberOf(emitted[m]) <= BlockNumberOf(emitted[n])
            /\ ( /\ emitted[m].type = "transaction"
                 /\ emitted[n].type = "transaction"
                 /\ RunOf(m) = RunOf(n) )
                 => IndexOf(emitted[m]) < IndexOf(emitted[n])

\* a client that was sent the frames of two blocks, the first with its two
\* transactions: block, transaction 0, transaction 1, block
C22_Witness ==
  \E client \in Clients :
    LET frames == BusFrames(client)
    IN  /\ Len(frames) >= 4
        /\ frames[1].type = "block"
        /\ frames[2].type = "transaction"
        /\ frames[3].type = "transaction"
        /\ frames[2].data.hash.v = TxHash(FirstBlock, 0)
        /\ frames[3].data.hash.v = TxHash(FirstBlock, 1)
        /\ frames[4].type = "block"
        /\ frames[4].data.number.v = ToString(FirstBlock + 1)

\* the events the step emits
NewEmitted == SubSeq(emitted', Len(emitted) + 1, Len(emitted'))

\* the frames of emitted events the step hands to the socket's send
NewBusFrames(client) ==
  SelectSeq(NewFrames(client), LAMBDA frame : frame.type \in EventTypes \ { "networkStats" })

\* C23: the frames of emitted events a step hands to a client's send are
\* frames of events emitted in that very step, each at most once: no event
\* is sent twice to a client, and none is sent in a later step, whatever the
\* client subscribes to afterwards.
C23_AtMostOnceNoReplay ==
  [][ \A client \in Clients :
        IsSubsequence(NewBusFrames(client), Serialized(NewEmitted)) ]_vars

\* two runs were delivered without a failure, and a client that has asked
\* for 'block' holds the block frame of the second only
C23_Witness ==
  \E client \in Clients :
    /\ delivered = 2
    /\ Len(OfType(emitted, "block")) = 2
    /\ "block" \in Requested(client)
    /\ Len(BusFrames(client)) >= 1
    /\ OfType(BusFrames(client), "block")
         = << serializeWithBigInt(OfType(emitted, "block")[2]) >>

----------------------------------------------------------------------------
(* The payload of the frames                                               *)

\* the fields of the events that hold block numbers, timestamps, amounts and gas
WideFields ==
  { "number", "timestamp", "gasUsed", "gasLimit", "blockNumber", "blockTimestamp",
    "value", "gasPrice", "amount", "totalSent", "totalReceived", "totalGasUsed",
    "avgGasPerTx", "currentBlockHeight" }

\* C24: in every frame of an event sent to a client, each field that holds a
\* block number, a timestamp, an amount or a gas quantity is a JSON string of
\* decimal digits, never a JSON number.
C24_WideFieldsAreStrings ==
  \A client \in Clients :
    \A frame \in Elements(EventFrames(client)) :
      \A f \in DOMAIN frame.data \cap WideFields : frame.data[f].t = "string"

\* the JavaScript number a JSON value of a count stands for
NumberOf(x) == CHOOSE n \in 0..(Len(emitted) + 1) : ToString(n) = x.v

\* the transactions of the block whose run emitted the n-th event
TxsOfRun(n) ==
  LET b == BlockNumberOf(emitted[RunOf(n)])
  IN  FullBlock(b, liveChain[b - FirstBlock + 1])

\* how many transactions of txs satisfy P, and the sum of f over them
CountIn(txs, P(_)) == Cardinality({ pos \in 1..Len(txs) : P(txs[pos]) })

SumIn(txs, P(_), f(_)) ==
  SumSeq([ pos \in 1..Len(txs) |-> IF P(txs[pos]) THEN f(txs[pos]) ELSE 0 ])

\* C25: every emitted block event carries, for each of the six categories,
\* the number of the block's transactions of that category, as the block's
\* BlockRecord does, so that its six counts add up to its transactionCount.
C25_BlockEventCounts ==
  \A n \in 1..Len(emitted) :
    emitted[n].type = "block"
      => LET data == emitted[n].data
             txs == TxsOfRun(n)
             Field(cat) == cat \o "Count"
         IN  /\ \A cat \in Categories :
                  LET Is(tx) == Classify(tx).txType = cat
                  IN  /\ Field(cat) \in DOMAIN data
                      /\ NumberOf(data[Field(cat)]) = CountIn(txs, Is)
             /\ NumberOf(data.transferCount) + NumberOf(data.swapCount)
                  + NumberOf(data.mintCount) + NumberOf(data.burnCount)
                  + NumberOf(data.stakeCount) + NumberOf(data.otherCount)
                  = NumberOf(data.transactionCount)

\* the field of an event that holds its aggregation key within the block
KeyOf(event) ==
  IF event.type = "contractUsage" THEN << event.data.contractAddress.v >>
  ELSE IF event.type = "walletContractInteraction"
  THEN << event.data.walletAddress.v, event.data.contractAddress.v >>
  ELSE << event.data.walletAddress.v >>

\* C26: among the events one run emits there is one contractUsage,
\* walletContractInteraction, walletGasUsage and monWalletActivity event per
\* aggregation key, and the walletGasUsage and contractUsage events carry the
\* transaction count and the gas total of all the block's transactions of
\* their key, as the persisted rows do.
C26_EventsAreAggregates ==
  \A n \in 1..Len(emitted) :
    LET event == emitted[n]
        txs == TxsOfRun(n)
    IN  event.type \in { "contractUsage", "walletContractInteraction",
                         "walletGasUsage", "monWalletActivity" }
          => /\ \A m \in 1..(n - 1) :
                  (RunOf(m) = RunOf(n) /\ emitted[m].type = event.type)
                    => KeyOf(emitted[m]) # KeyOf(event)
             /\ event.type = "walletGasUsage"
                  => LET By(tx) == tx.from = event.data.walletAddress.v
                     IN  /\ NumberOf(event.data.transactionCount) = CountIn(txs, By)
                         /\ event.data.totalGasUsed.v = ToString(SumIn(txs, By, GasOf))
             /\ event.type = "contractUsage"
                  => LET To(tx) == Classify(tx).contractAddress = event.data.contractAddress.v
                     IN  /\ NumberOf(event.data.transactionCount) = CountIn(txs, To)
                         /\ event.data.gasUsed.v = ToString(SumIn(txs, To, GasOf))

----------------------------------------------------------------------------
(* Edge cases of the persisting handler                                    *)

\* C27: a processed block whose transaction list is empty has exactly one
\* BlockRecord, with transactionCount 0 and the six category counts 0, and
\* no row in any other table.
C27_EmptyBlock ==
  \A b \in completed :
    Len(SourceTxs(b)) = 0
      => /\ Len(RowsOfBlock(store, b).blocks) = 1
         /\ \A r \in RowSet("blocks", b) :
              /\ r.transactionCount = 0
              /\ \A f \in { "transferCount", "swapCount", "mintCount", "burnCount",
                            "stakeCount", "otherCount" } : r[f] = 0
         /\ \A table \in Tables \ { "blocks" } : RowSet(table, b) = {}

\* an empty block has been processed
C27_Witness ==
  \E b \in completed : Len(SourceTxs(b)) = 0 /\ RowSet("blocks", b) # {}

\* the transaction the iteration of the loop the step takes is about
Current == txList[i + 1]

\* the entry of a wallet in the gas accumulator, or none
GasEntry(stats, w) == IF MapHas(stats, w) THEN << MapGet(stats, w) >> ELSE <<>>

\* C28: an iteration of the loop for a transaction without receiver and
\* without value adds one to the counter of the category of its selector and
\* to no other, adds its gas and one transaction to the sender's gas entry
\* without adding to the entry's contract set, leaves every other accumulator
\* as it was, and stores a TransactionRecord whose receiver and contract
\* address are the zero address.
C28_NoReceiverNoValue ==
  [][ ( /\ pc = "transactions"
        /\ i' = i + 1
        /\ ~Truthy(Current.to)
        /\ Current.value = 0 )
        => LET tx == Current
               cat == classifyTransactionByMethodSig(InputOf(tx))
               before == GasEntry(walletGasStats, tx.from)
               after == GasEntry(walletGasStats', tx.from)
           IN  /\ txTypeCounts' = [txTypeCounts EXCEPT ![cat] = @ + 1]
               /\ contractStats' = contractStats
               /\ walletContractStats' = walletContractStats
               /\ monTransfersList' = monTransfersList
               /\ monWalletStats' = monWalletStats
               /\ after # <<>>
               /\ after[1].totalGasUsed
                    = (IF before = <<>> THEN 0 ELSE before[1].totalGasUsed) + tx.gas
               /\ after[1].transactionCount
                    = (IF before = <<>> THEN 0 ELSE before[1].transactionCount) + 1
               /\ after[1].contractsInteracted
                    = (IF before = <<>> THEN {} ELSE before[1].contractsInteracted)
               /\ \A w \in {A, B, C, D} \ { tx.from } :
                    GasEntry(walletGasStats', w) = GasEntry(walletGasStats, w)
               /\ \E r \in RowSet("transactions", block.number)' :
                    /\ r.hash = tx.hash
                    /\ r.toAddress = ZeroAddress
                    /\ r.contractAddress = ZeroAddress
                    /\ r.transactionType = cat ]_vars

\* a processed block with a transaction without receiver and value, whose
\* sender has a gas row that counts no contract, and no contract row
C28_Witness ==
  \E b \in completed :
    /\ \E n \in 1..Len(SourceTxs(b)) :
         ~Truthy(SourceTxs(b)[n].to) /\ SourceTxs(b)[n].value = 0
    /\ \E r \in RowSet("walletGasUsage", b) : r.contractsInteracted = 0
    /\ RowSet("contractUsage", b) = {}
    /\ RowSet("monTransfers", b) = {}

\* C29: every WalletGasUsageRecord of a processed block counts the block's
\* transactions sent by its wallet, sums their gas, carries the truncated
\* quotient of the two, and counts the distinct receivers of those
\* transactions, those without a receiver adding none; and every sender of
\* the block has one such record.
C29_WalletGasTotals ==
  \A b \in completed :
    /\ { r.walletAddress : r \in RowSet("walletGasUsage", b) }
         = { SourceTxs(b)[n].from : n \in 1..Len(SourceTxs(b)) }
    /\ Len(RowsOfBlock(store, b).walletGasUsage) = Cardinality(RowSet("walletGasUsage", b))
    /\ \A r \in RowSet("walletGasUsage", b) :
         LET By(tx) == tx.from = r.walletAddress
             Gas(tx) == tx.gas
             receivers == { SourceTxs(b)[n].to :
                              n \in { m \in 1..Len(SourceTxs(b)) :
                                        /\ By(SourceTxs(b)[m])
                                        /\ Truthy(SourceTxs(b)[m].to) } }
         IN  /\ r.transactionCount = Cardinality(Positions(b, By))
             /\ r.totalGasUsed = SumWhere(b, By, Gas)
             /\ r.avgGasPerTx * r.transactionCount <= r.totalGasUsed
             /\ r.totalGasUsed < (r.avgGasPerTx + 1) * r.transactionCount
             /\ r.contractsInteracted = Cardinality(receivers)

\* a processed block with a wallet that sent two transactions to two
\* receivers, whose gas does not divide evenly
C29_Witness ==
  \E b \in completed :
    \E r \in RowSet("walletGasUsage", b) :
      /\ r.transactionCount = 2
      /\ r.contractsInteracted = 2
      /\ r.avgGasPerTx * r.transactionCount < r.totalGasUsed

----------------------------------------------------------------------------
(* The interval callback                                                   *)

\* the networkStats frames the step hands to the socket's send
NewStatsFrames(client) ==
  SelectSeq(NewFrames(client), LAMBDA frame : frame.type = "networkStats")

\* the interval callback runs and hands a frame to the client's send
TickReaches(client) ==
  /\ TickUpTo(MaxStatsFrames)
  /\ Len(sent'[client]) = Len(sent[client]) + 1

----------------------------------------------------------------------------
(* The subscription registry                                               *)

\* C31: clientSubscriptions has an entry for a socket exactly while the
\* socket has connected and its 'close' event has not been handled, whatever
\* the order of the connection, message and close callbacks; a subscribe
\* request handled after the close does not bring the entry back.
C31_EntryIffConnected ==
  \A client \in Clients :
    clientSubscriptions[client] # <<>> <=> readyState[client] \in { "OPEN", "CLOSING" }

----------------------------------------------------------------------------
(* The TPS window under re-delivered blocks                                *)

\* C32: the TPS window holds at most one entry per block number and its
\* entries are in strictly increasing order of block number, after every
\* sequence of runs of the block handler, the runs that fail after
\* updateBlockTracking and are delivered again for the same block included.
C32_WindowStrictlyIncreasing ==
  \A a \in 1..Len(recentBlocks), b \in 1..Len(recentBlocks) :
    a < b => recentBlocks[a].number < recentBlocks[b].number

\* the JavaScript numbers that are zero or more, as far as the transactions
\* and the time spans of the windows reach
NonNegativeNumbers ==
  { NumQ(Quotient(n, d)) : n \in 0..(MaxOrderedRuns * MaxTxs), d \in 1..MaxOrderedRuns }

\* the networkStats frames handed to the client's send so far
StatsFramesOf(client) ==
  SelectSeq(sent[client], LAMBDA frame : frame.type = "networkStats")

\* C33: the tps of every networkStats frame is zero or more, whatever blocks
\* the block handler has fed into the window.
C33_TpsNonNegative ==
  \A client \in Clients :
    \A frame \in Elements(StatsFramesOf(client)) :
      frame.data.tps \in NonNegativeNumbers

\* a frame with a tps above zero has been sent: the window spans two blocks
\* of different timestamps with transactions
C33_Witness ==
  \E client \in Clients :
    \E frame \in Elements(StatsFramesOf(client)) :
      /\ frame.data.tps \in NonNegativeNumbers
      /\ frame.data.tps # NumQ(Zero)
      /\ Len(recentBlocks) = 2
      /\ recentBlocks[1].timestamp < recentBlocks[2].timestamp

----------------------------------------------------------------------------
(* The rows of one block against each other                                *)

\* the BlockRecord's count of a category
CountOf(r, c) ==
  CASE c = "transfer" -> r.transferCount
    [] c = "swap" -> r.swapCount
    [] c = "mint" -> r.mintCount
    [] c = "burn" -> r.burnCount
    [] c = "stake" -> r.stakeCount
    [] c = "other" -> r.otherCount

\* C34: for every stored BlockRecord and every category, the number of the
\* block's TransactionRecords of that category is the BlockRecord's count of
\* the category, and the number of the block's TransactionRecords is its
\* transactionCount.
C34_TransactionRowsMatchCounts ==
  \A b \in Blocks :
    \A r \in RowSet("blocks", b) :
      /\ \A c \in Categories :
           Cardinality({ t \in RowSet("transactions", b) : t.transactionType = c })
             = CountOf(r, c)
      /\ Len(RowsOfBlock(store, b).transactions) = r.transactionCount
      /\ Cardinality(RowSet("transactions", b)) = r.transactionCount

\* C34 witness: a BlockRecord of two transactions of two categories is stored
\* with its TransactionRecords, one of them a transfer by the value rule
C34_Witness ==
  \E b \in Blocks :
    \E r \in RowSet("blocks", b) :
      /\ r.transactionCount = 2
      /\ r.transferCount = 1
      /\ r.otherCount = 1
      /\ \E t \in RowSet("transactions", b) :
           /\ t.transactionType = "transfer"
           /\ t.value > 0
           /\ classifyTransactionByMethodSig(t.inputData) # "transfer"

SumOver(rows, f(_)) == SumSeq([ n \in 1..Len(rows) |-> f(rows[n]) ])

\* the transaction of block b a MonTransferRecord was made from has a receiver
HasReceiver(b, t) ==
  \E n \in 1..Len(SourceTxs(b)) :
    SourceTxs(b)[n].hash = t.transactionHash /\ Truthy(SourceTxs(b)[n].to)

\* C36: in a processed block the totalSent of the MonWalletActivityRecords
\* add up to the amounts of the MonTransferRecords, their totalReceived to
\* the amounts of the MonTransferRecords whose transaction has a receiver,
\* and their sentCount to the number of MonTransferRecords.
C36_ActivityMatchesTransfers ==
  \A b \in completed :
    LET activity == RowsOfBlock(store, b).monWalletActivity
        transfers == RowsOfBlock(store, b).monTransfers
        withReceiver == SelectSeq(transfers, LAMBDA t : HasReceiver(b, t))
    IN  /\ SumOver(activity, LAMBDA r : r.totalSent)
             = SumOver(transfers, LAMBDA t : t.amount)
        /\ SumOver(activity, LAMBDA r : r.totalReceived)
             = SumOver(withReceiver, LAMBDA t : t.amount)
        /\ SumOver(activity, LAMBDA r : r.sentCount) = Len(transfers)

\* C36 witness: a processed block with two transfers of one sender, one of
\* them without receiver
C36_Witness ==
  \E b \in completed :
    LET activity == RowsOfBlock(store, b).monWalletActivity
        transfers == RowsOfBlock(store, b).monTransfers
    IN  /\ Len(transfers) = 2
        /\ Len(activity) = 2
        /\ \E n \in 1..2 : ~HasReceiver(b, transfers[n])
        /\ SumOver(activity, LAMBDA r : r.totalReceived)
             < SumOver(activity, LAMBDA r : r.totalSent)

\* C37: in a processed block the transactionCount and the gasUsed of every
\* ContractUsageRecord are the sums of transactionCount and gasUsed over the
\* block's WalletContractInteractionRecords of that contract, and the
\* contractsInteracted of every wallet is the number of the block's
\* WalletContractInteractionRecords of that wallet.
C37_ContractAndWalletTotals ==
  \A b \in completed :
    LET pairs == RowsOfBlock(store, b).walletContractInteractions
    IN  /\ \A r \in RowSet("contractUsage", b) :
             LET ofContract == SelectSeq(pairs, LAMBDA p : p.contractAddress = r.contractAddress)
             IN  /\ r.transactionCount = SumOver(ofContract, LAMBDA p : p.transactionCount)
                 /\ r.gasUsed = SumOver(ofContract, LAMBDA p : p.gasUsed)
        /\ \A p \in RowSet("walletContractInteractions", b) :
             /\ \E r \in RowSet("contractUsage", b) : r.contractAddress = p.contractAddress
             /\ \E g \in RowSet("walletGasUsage", b) : g.walletAddress = p.walletAddress
        /\ \A g \in RowSet("walletGasUsage", b) :
             g.contractsInteracted
               = Len(SelectSeq(pairs, LAMBDA p : p.walletAddress = g.walletAddress))

\* C37 witness: a processed block in which two wallets went to one contract
\* and one of them to another receiver as well
C37_Witness ==
  \E b \in completed :
    /\ \E r \in RowSet("contractUsage", b) :
         /\ r.transactionCount = 2
         /\ \E p, q \in RowSet("walletContractInteractions", b) :
              /\ p.contractAddress = r.contractAddress
              /\ q.contractAddress = r.contractAddress
              /\ p.walletAddress # q.walletAddress
    /\ \E g \in RowSet("walletGasUsage", b) : g.contractsInteracted = 2

\* C38: in a processed block the transactionCount of the
\* WalletGasUsageRecords add up to the number of the block's
\* TransactionRecords and their totalGasUsed to the gasUsed of those
\* TransactionRecords.
C38_WalletGasMatchesTransactions ==
  \A b \in completed :
    LET wallets == RowsOfBlock(store, b).walletGasUsage
        txs == RowsOfBlock(store, b).transactions
    IN  /\ SumOver(wallets, LAMBDA g : g.transactionCount) = Len(txs)
        /\ SumOver(wallets, LAMBDA g : g.totalGasUsed) = SumOver(txs, LAMBDA t : t.gasUsed)

\* C38 witness: a processed block of two wallets, one of them with a
\* transaction without receiver
C38_Witness ==
  \E b \in completed :
    LET wallets == RowsOfBlock(store, b).walletGasUsage
        txs == RowsOfBlock(store, b).transactions
    IN  /\ Len(wallets) = 2
        /\ Len(txs) = 2
        /\ \E n \in 1..2 : txs[n].toAddress = ZeroAddress
        /\ SumOver(wallets, LAMBDA g : g.totalGasUsed) > 0

----------------------------------------------------------------------------
(* The order of the writes                                                 *)

\* the tables written after the BlockRecord
AggregateTables == { Phases[n] : n \in 1..Len(Phases) }

\* C39: the rows of a block are written in a fixed order, so in every state
\* of the store: if the BlockRecord of block N is present, every
\* TransactionRecord of N is present, and if a contract-usage, wallet-contract,
\* wallet-gas, MON-transfer or MON-wallet-activity row of N is present, the
\* BlockRecord of N is present.
C39_WriteOrder ==
  \A b \in Blocks :
    /\ RowSet("blocks", b) # {}
         => /\ chain[b] # <<>>
            /\ StoredKeys("transactions", b) = ExpectedKeys("transactions", b)
    /\ (\E t \in AggregateTables : RowSet(t, b) # {}) => RowSet("blocks", b) # {}

\* C39 witness: a run was rejected in the middle of the aggregate rows of a
\* block of two transactions: the store holds the transactions, the
\* BlockRecord and some of the aggregate rows
C39_Witness ==
  \E b \in Blocks :
    /\ pc = "idle"
    /\ error = "rejected"
    /\ Cardinality(RowSet("transactions", b)) = 2
    /\ RowSet("blocks", b) # {}
    /\ RowSet("contractUsage", b) # {}
    /\ RowSet("walletGasUsage", b) = {}

====
